---------------------------- MODULE Spec2Model ----------------------------
(***************************************************************************)
(* A model of the GQL query core: the SELECT clause parser                 *)
(* (gitql-parser/src/parser.rs), the statement executor                    *)
(* (gitql-engine/src/engine_executor.rs), the query orchestrator           *)
(* (gitql-engine/src/engine.rs) and the session Environment                *)
(* (gitql-ast/src/environment.rs).                                         *)
(***************************************************************************)
EXTENDS Integers, Sequences, FiniteSets, TLC

VARIABLES
    src,      \* the SELECT being compiled: select list, table, clauses as written
    repos,    \* the row sources: one sequence of physical records per repository
    env,      \* Environment {globals, globals_types, scopes}
    query,    \* result of parse_gql: GQLQuery or the rejection
    st,       \* evaluate_select_query locals: gitql_object, alias_table, trace, status
    pc,       \* position of the orchestrator: parse, index in GQL_COMMANDS_IN_ORDER, ...
    pg,       \* offset/limit harness: the group being paginated
    op,       \* Environment API harness: the last call made
    sess      \* session harness: the query being run against a reused Environment

vars == <<src, repos, env, query, st, pc, pg, op, sess>>

-----------------------------------------------------------------------------
(* Bounds of the explored inputs *)

MaxRepos == 2
MaxRows == 2
MaxClauses == 2
MaxCount == 2
MaxCalls == 4
MaxGroups == 2
MaxQueries == 3
IntWidth == 3         \* bits of the model's Integer, standing for the 64 of i64
MaxTokens == 4        \* tokens after `SET @x =` in the enumerated token sequences
MaxColumn == 3        \* rows of the group an aggregation function is applied to
MaxChars == 5         \* characters after the opening of a block comment

-----------------------------------------------------------------------------
(* Generic helpers on sequences and maps *)

EmptyMap == [x \in {} |-> ""]

MapPut(m, k, v) == [x \in (DOMAIN m) \cup {k} |-> IF x = k THEN v ELSE m[x]]

Contains(s, x) == \E i \in 1..Len(s) : s[i] = x

\* Iterator::position: index of the first element equal to x, 0 for None
Position(s, x) ==
    IF Contains(s, x) THEN CHOOSE i \in 1..Len(s) : s[i] = x /\ \A j \in 1..(i - 1) : s[j] # x
    ELSE 0

Min2(a, b) == IF a <= b THEN a ELSE b

RECURSIVE Concat(_)
Concat(ss) == IF ss = <<>> THEN <<>> ELSE Head(ss) \o Concat(Tail(ss))

SeqsUpTo(S, n) == UNION {[1..k -> S] : k \in 0..n}

-----------------------------------------------------------------------------
(* Value and DataType: gitql-ast/src/value.rs, gitql-ast/src/types.rs *)

IntV(n) == [t |-> "Integer", i |-> n, s |-> "", b |-> FALSE]
TextV(x) == [t |-> "Text", i |-> 0, s |-> x, b |-> FALSE]
BoolV(x) == [t |-> "Boolean", i |-> 0, s |-> "", b |-> x]
NullV == [t |-> "Null", i |-> 0, s |-> "", b |-> FALSE]
\* Value::Float(n / d): an f64 as the rational it holds; d = 0 stands for the
\* non-finite results (n = 1 for inf, -1 for -inf, 0 for NaN)
FloatV(n, d) == [t |-> "Float", i |-> n, s |-> "", b |-> FALSE, d |-> d]

data_type(v) == v.t

as_int(v) == IF v.t = "Integer" THEN v.i ELSE 0

as_text(v) == IF v.t = "Text" THEN v.s ELSE ""

as_bool(v) == IF v.t = "Boolean" THEN v.b ELSE FALSE

DateTimeV(n) == [t |-> "DateTime", i |-> n, s |-> "", b |-> FALSE]
DateV(n) == [t |-> "Date", i |-> n, s |-> "", b |-> FALSE]
TimeV(x) == [t |-> "Time", i |-> 0, s |-> x, b |-> FALSE]

as_date_time(v) == IF v.t = "DateTime" THEN v.i ELSE 0
as_date(v) == IF v.t = "Date" THEN v.i ELSE 0
as_time(v) == IF v.t = "Time" THEN v.s ELSE ""

\* Value::as_float as <<numerator, denominator>>
as_float(v) == IF v.t = "Float" THEN <<v.i, v.d>> ELSE <<0, 1>>

\* Ord::cmp on the small strings of the model
\* ("" < "12:36:31" < "13:00:00" < "a" < "b")
TextRank(x) ==
    CASE x = "" -> 0
      [] x = "12:36:31" -> 1
      [] x = "13:00:00" -> 2
      [] x = "a" -> 3
      [] x = "b" -> 4
      [] OTHER -> 5

\* f64::total_cmp: -inf, the finite values by cross-multiplication, inf, NaN
total_cmp(x, y) ==
    LET Tier(f) == IF f[2] # 0 THEN 0 ELSE IF f[1] < 0 THEN -1 ELSE IF f[1] > 0 THEN 1 ELSE 2
    IN  IF Tier(x) # Tier(y) THEN (IF Tier(x) < Tier(y) THEN "Less" ELSE "Greater")
        ELSE IF Tier(x) # 0 THEN "Equal"
        ELSE IF x[1] * y[2] < y[1] * x[2] THEN "Less"
        ELSE IF x[1] * y[2] > y[1] * x[2] THEN "Greater"
        ELSE "Equal"

Cmp(a, b) == IF a < b THEN "Less" ELSE IF a > b THEN "Greater" ELSE "Equal"

\* Value::compare: other.cmp(self) for same-typed operands, Equal otherwise
compare(self, other) ==
    IF self.t # other.t THEN "Equal"
    ELSE CASE self.t = "Integer" -> Cmp(as_int(other), as_int(self))
           [] self.t = "Float" -> total_cmp(as_float(other), as_float(self))
           [] self.t = "Text" -> Cmp(TextRank(as_text(other)), TextRank(as_text(self)))
           [] self.t = "DateTime" -> Cmp(as_date_time(other), as_date_time(self))
           [] self.t = "Date" -> Cmp(as_date(other), as_date(self))
           [] self.t = "Time" -> Cmp(TextRank(as_time(other)), TextRank(as_time(self)))
           [] OTHER -> "Equal"

Reverse(o) == IF o = "Less" THEN "Greater" ELSE IF o = "Greater" THEN "Less" ELSE "Equal"

\* Value::div on Integer operands (i64 division truncates toward zero)
TruncDiv(a, b) ==
    IF (a >= 0) = (b >= 0)
    THEN (IF a >= 0 THEN a ELSE -a) \div (IF b >= 0 THEN b ELSE -b)
    ELSE -((IF a >= 0 THEN a ELSE -a) \div (IF b >= 0 THEN b ELSE -b))

\* i64::MIN and i64::MAX at the model's width
MinInt == -(2 ^ (IntWidth - 1))
MaxInt == 2 ^ (IntWidth - 1) - 1

Abs(n) == IF n < 0 THEN -n ELSE n

RECURSIVE Gcd(_, _)
Gcd(a, b) == IF b = 0 THEN a ELSE Gcd(b, a % b)

\* f64 division x / y: the quotient in lowest terms; a zero divisor gives inf,
\* -inf or NaN
FloatDiv(x, y) ==
    LET n == x[1] * y[2]
        d == x[2] * y[1]
        an == Abs(n)
        ad == Abs(d)
        g == Gcd(an, ad)
        sign == IF (n < 0) = (d < 0) THEN 1 ELSE -1
    IN  IF d = 0 THEN FloatV(IF n > 0 THEN 1 ELSE IF n < 0 THEN -1 ELSE 0, 0)
        ELSE FloatV(sign * (an \div g), ad \div g)

\* Value::div: Err for an Integer zero divisor; trap marks the abort of the i64
\* `/` on MIN / -1. x and y are the operands of the three Float branches:
\* as_float() of a Float, `as_int() as f64` of an Integer
div(self, other) ==
    LET a == as_int(self)
        b == as_int(other)
        x == IF self.t = "Integer" THEN <<a, 1>> ELSE as_float(self)
        y == IF other.t = "Integer" THEN <<b, 1>> ELSE as_float(other)
        Returned(v) == [ok |-> TRUE, trap |-> FALSE, v |-> v]
    IN  IF other.t = "Integer" /\ b = 0
        THEN [ok |-> FALSE, trap |-> FALSE, v |-> NullV]
        ELSE IF self.t = "Integer" /\ other.t = "Integer"
        THEN (IF a = MinInt /\ b = -1
              THEN [ok |-> FALSE, trap |-> TRUE, v |-> NullV]
              ELSE Returned(IntV(TruncDiv(a, b))))
        ELSE IF self.t \in {"Integer", "Float"} /\ other.t \in {"Integer", "Float"}
        THEN Returned(FloatDiv(x, y))
        ELSE Returned(IntV(0))

-----------------------------------------------------------------------------
(* Catalog: gitql-ast/src/environment.rs, gitql-ast/src/types.rs *)

TABLES_FIELDS_NAMES ==
    [tbl \in {"diffs", "tags"} |->
        IF tbl = "diffs"
        THEN <<"commit_id", "name", "email", "insertions", "deletions", "files_changed", "repo">>
        ELSE <<"name", "repo">>]

TABLES_FIELDS_TYPES ==
    [f \in {"commit_id", "name", "email", "insertions", "deletions", "files_changed", "repo"} |->
        IF f \in {"insertions", "deletions", "files_changed"} THEN "Integer" ELSE "Text"]


\* impl PartialEq for DataType, on the non-composite types of the model
DataTypeEq(a, b) ==
    IF a = "Any" \/ b = "Any" THEN TRUE
    ELSE IF a \in {"Integer", "Float"} /\ b \in {"Integer", "Float"} THEN TRUE
    ELSE a = b

-----------------------------------------------------------------------------
(* Environment: gitql-ast/src/environment.rs *)

GlobalNames == {"@x", "@y"}

EmptyEnv == [globals |-> EmptyMap, globals_types |-> EmptyMap, scopes |-> EmptyMap]

define(e, name, ty) == [e EXCEPT !.scopes = MapPut(@, name, ty)]

define_global(e, name, ty) == [e EXCEPT !.globals_types = MapPut(@, name, ty)]

contains(e, name) == name \in DOMAIN e.scopes \/ name \in DOMAIN e.globals_types

\* Option<&DataType>: "None" stands for the absent entry
resolve_type(e, name) ==
    IF name \in GlobalNames
    THEN (IF name \in DOMAIN e.globals_types THEN e.globals_types[name] ELSE "None")
    ELSE (IF name \in DOMAIN e.scopes THEN e.scopes[name] ELSE "None")

clear_session_drops_types(e) == [e EXCEPT !.scopes = EmptyMap, !.globals_types = EmptyMap]

clear_session(e) == [e EXCEPT !.scopes = EmptyMap]

-----------------------------------------------------------------------------
(* Expressions: gitql-ast/src/expression.rs *)

SymbolExpression(n) == [k |-> "Symbol", name |-> n]
GlobalVariableExpression(n) == [k |-> "GlobalVariable", name |-> n]
NumberExpression(v) == [k |-> "Number", value |-> v]
BooleanExpression(x) == [k |-> "Boolean", is_true |-> x]
StringExpression(v, ty) == [k |-> "String", value |-> v, value_type |-> ty]
\* operator is one of "/" (Arithmetic), ">" and "=" (Comparison)
ArithmeticExpression(l, o, r) == [k |-> "Arithmetic", left |-> l, operator |-> o, right |-> r]
ComparisonExpression(l, o, r) == [k |-> "Comparison", left |-> l, operator |-> o, right |-> r]
AssignmentExpression(n, v) == [k |-> "Assignment", symbol |-> n, value |-> v]
\* a call as written in the source text, before the parser resolves it
CallSource(f, a) == [k |-> "Call", function_name |-> f, argument |-> a]

LogicalExpression(l, o, r) == [k |-> "Logical", left |-> l, operator |-> o, right |-> r]
BitwiseExpression(l, o, r) == [k |-> "Bitwise", left |-> l, operator |-> o, right |-> r]
CallExpression(f, args) == [k |-> "CallExpression", function_name |-> f, arguments |-> args]
CaseExpression(c, v, d, ty) ==
    [k |-> "Case", conditions |-> c, values |-> v, default_value |-> d, values_type |-> ty]
InExpression(a, v, ty, n) ==
    [k |-> "In", argument |-> a, values |-> v, values_type |-> ty, has_not_keyword |-> n]

\* PROTOTYPES: the standard function of the model
PROTOTYPES == [f \in {"lower"} |-> [parameters |-> <<"Text">>, result |-> "Text"]]

is_const(e) == e.k \in {"Number", "Boolean", "String"}

RECURSIVE expr_type(_, _)
expr_type(e, scope) ==
    CASE e.k = "Symbol" ->
            IF contains(scope, e.name)
            THEN (IF e.name \in DOMAIN scope.scopes THEN scope.scopes[e.name] ELSE "Panic")
            ELSE IF e.name \in DOMAIN TABLES_FIELDS_TYPES THEN TABLES_FIELDS_TYPES[e.name]
            ELSE "Undefined"
      [] e.k = "GlobalVariable" ->
            IF e.name \in DOMAIN scope.globals_types THEN scope.globals_types[e.name]
            ELSE "Undefined"
      [] e.k = "Number" -> data_type(e.value)
      [] e.k = "Boolean" -> "Boolean"
      [] e.k = "String" -> e.value_type
      [] e.k = "Arithmetic" ->
            IF expr_type(e.left, scope) = "Integer" /\ expr_type(e.right, scope) = "Integer"
            THEN "Integer" ELSE "Float"
      [] e.k = "Comparison" -> "Boolean"
      [] e.k = "Logical" -> "Boolean"
      [] e.k = "Bitwise" -> "Integer"
      [] e.k = "CallExpression" -> PROTOTYPES[e.function_name].result
      [] e.k = "Case" -> e.values_type
      [] e.k = "In" -> e.values_type
      [] e.k = "Assignment" -> expr_type(e.value, scope)
      [] OTHER -> "Undefined"

\* get_expression_name: Ok(name) for a symbol or a global variable, "" for Err
get_expression_name(e) == IF e.k \in {"Symbol", "GlobalVariable"} THEN e.name ELSE ""

-----------------------------------------------------------------------------
(* Aggregations: gitql-ast/src/aggregation.rs *)

AGGREGATIONS == {"max", "min", "sum", "avg", "count"}

AGGREGATIONS_PROTOS ==
    [f \in AGGREGATIONS |->
        [parameter |-> IF f = "count" THEN "Any"
                       ELSE IF f \in {"sum", "avg"} THEN "Integer" ELSE "Variant",
         result |-> "Integer"]]

\* DataType::eq of an argument type with an aggregate's parameter type
ParameterAccepts(param, ty) ==
    IF param = "Variant" THEN ty \in {"Integer", "Float", "Text", "Date", "Time", "DateTime", "Any"}
    ELSE DataTypeEq(param, ty)

aggregation_count(field_name, titles, objects) == IntV(Len(objects))

RECURSIVE SumInts(_, _)
SumInts(rows, idx) ==
    IF rows = <<>> THEN 0 ELSE as_int(Head(rows)[idx]) + SumInts(Tail(rows), idx)

aggregation_sum(field_name, titles, objects) ==
    IntV(SumInts(objects, Position(titles, field_name)))

-----------------------------------------------------------------------------
(* ParserContext: gitql-parser/src/context.rs *)

ParserContext ==
    [aggregations |-> <<>>, selected_fields |-> <<>>, hidden_selections |-> <<>>,
     generated_field_count |-> 0, is_single_value_query |-> FALSE,
     has_group_by_statement |-> FALSE]

\* format!("column_{}", n)
ColumnName(n) ==
    <<"column_1", "column_2", "column_3", "column_4", "column_5", "column_6",
      "column_7", "column_8", "column_9", "column_10">>[n]

\* the context after generate_column_name; the name is ColumnName of the new count
generate_column_name(c) == [c EXCEPT !.generated_field_count = @ + 1]

PushHidden(c, n) == [c EXCEPT !.hidden_selections = Append(@, n)]

-----------------------------------------------------------------------------
(* Expression parser: gitql-parser/src/parser.rs.  The token stream is      *)
(* abstracted to the expression tree the tokens spell; every effect of the *)
(* parse functions on the ParserContext and the Environment is kept.       *)

ParseOk(c, e, x) == [ok |-> TRUE, ctx |-> c, env |-> e, expr |-> x]
ParseErr(c, e) == [ok |-> FALSE, ctx |-> c, env |-> e, expr |-> SymbolExpression("")]

RECURSIVE parse_expression(_, _, _)
RECURSIVE parse_assignment_expression(_, _, _)

\* parse_primary_expression, TokenKind::Symbol arm
parse_symbol(c, e, name) ==
    ParseOk(IF Contains(c.selected_fields, name) THEN c ELSE PushHidden(c, name),
            e, SymbolExpression(name))

\* parse_function_call_expression with parse_arguments_expressions, one argument
parse_function_call_expression(c, e, x) ==
    LET proto == AGGREGATIONS_PROTOS[x.function_name]
        Register(c3, env2, literal, argument) ==
            ParseOk([PushHidden(c3, ColumnName(c3.generated_field_count))
                        EXCEPT !.aggregations =
                            Append(@, [name |-> ColumnName(c3.generated_field_count),
                                       kind |-> "Function", function |-> x.function_name,
                                       argument |-> literal, expr |-> argument])],
                    define(env2, ColumnName(c3.generated_field_count), proto.result),
                    SymbolExpression(ColumnName(c3.generated_field_count)))
        Check(c2, env2, literal, argument) ==
            IF ~ParameterAccepts(proto.parameter, expr_type(argument, env2))
            THEN ParseErr(c2, env2)
            ELSE IF literal = "" THEN ParseErr(c2, env2)
            ELSE Register(generate_column_name(c2), env2, literal, argument)
        Argument(a) ==
            IF ~a.ok THEN a
            ELSE Check(IF get_expression_name(a.expr) # ""
                       THEN PushHidden(a.ctx, get_expression_name(a.expr)) ELSE a.ctx,
                       a.env, get_expression_name(a.expr), a.expr)
        Callee(fname) ==
            IF x.function_name \notin AGGREGATIONS THEN ParseErr(fname.ctx, e)
            ELSE Argument(parse_expression(fname.ctx, e, x.argument))
    IN  Callee(parse_symbol(c, e, x.function_name))

\* parse_is_null_expression and below, down to parse_primary_expression
RECURSIVE parse_operand(_, _, _)
parse_operand(c, e, x) ==
    LET Typed(l, r) ==
            IF x.k = "Comparison"
            THEN DataTypeEq(expr_type(l.expr, r.env), expr_type(r.expr, r.env))
            ELSE /\ expr_type(l.expr, r.env) \in {"Integer", "Float"}
                 /\ expr_type(r.expr, r.env) \in {"Integer", "Float"}
        Right(l, r) ==
            IF ~r.ok THEN r
            ELSE IF ~Typed(l, r) THEN ParseErr(r.ctx, r.env)
            ELSE ParseOk(r.ctx, r.env,
                         [k |-> x.k, left |-> l.expr, operator |-> x.operator,
                          right |-> r.expr])
        Left(l) == IF ~l.ok THEN l ELSE Right(l, parse_operand(l.ctx, l.env, x.right))
    IN  CASE x.k = "Symbol" -> parse_symbol(c, e, x.name)
          [] x.k = "Call" -> parse_function_call_expression(c, e, x)
          [] x.k \in {"Comparison", "Arithmetic"} -> Left(parse_operand(c, e, x.left))
          \* parse_group_expression: a parenthesised assignment
          [] x.k = "Assignment" -> parse_expression(c, e, x)
          [] OTHER -> ParseOk(c, e, x)

parse_assignment_expression(c, e, x) ==
    LET Assign(value) ==
            IF ~value.ok THEN value
            ELSE ParseOk(value.ctx,
                         define_global(value.env, x.symbol, expr_type(value.expr, value.env)),
                         AssignmentExpression(x.symbol, value.expr))
    IN  IF x.k = "Assignment" THEN Assign(parse_operand(c, e, x.value))
        ELSE parse_operand(c, e, x)

parse_expression(c, e, x) ==
    LET Column(c2, r) ==
            ParseOk([(IF c2.has_group_by_statement
                         /\ ~Contains(c2.hidden_selections, ColumnName(c2.generated_field_count))
                      THEN PushHidden(c2, ColumnName(c2.generated_field_count)) ELSE c2)
                        EXCEPT !.aggregations =
                            Append(@, [name |-> ColumnName(c2.generated_field_count),
                                       kind |-> "Expression", function |-> "",
                                       argument |-> "", expr |-> r.expr])],
                    define(r.env, ColumnName(c2.generated_field_count),
                           expr_type(r.expr, r.env)),
                    SymbolExpression(ColumnName(c2.generated_field_count)))
        Parsed(r) ==
            IF ~r.ok THEN r
            ELSE IF Len(r.ctx.aggregations) # Len(c.aggregations)
            THEN Column(generate_column_name(r.ctx), r)
            ELSE r
    IN  Parsed(parse_assignment_expression(c, e, x))

-----------------------------------------------------------------------------
(* Clause parsers: gitql-parser/src/parser.rs.  A source query is           *)
(* [is_distinct, items, table, clauses]: the select list as written, the   *)
(* FROM table ("" when there is no FROM) and the clauses in written order. *)

SelectItem(x, a) == [expr |-> x, alias |-> a]

Clause(kd, x, f, n, d) == [kind |-> kd, expr |-> x, field |-> f, count |-> n, desc |-> d]

NoExpr == SymbolExpression("")

NoSelect ==
    [table_name |-> "", fields_names |-> <<>>, fields_values |-> <<>>,
     alias_table |-> EmptyMap, is_distinct |-> FALSE]

\* the loop body of parse_select_statement over the select list
RECURSIVE parse_select_items(_, _)
parse_select_items(acc, items) ==
    LET item == Head(items)
        fail(c, e) == [acc EXCEPT !.ok = FALSE, !.ctx = c, !.env = e]
        Keep(c2, e1, r, field_name, ty) ==
            parse_select_items(
                [ok |-> TRUE,
                 ctx |-> [c2 EXCEPT !.selected_fields = Append(@, field_name)],
                 env |-> define(e1, field_name, ty),
                 fields_names |-> Append(acc.fields_names, field_name),
                 fields_values |-> Append(acc.fields_values, r.expr),
                 alias_table |-> IF item.alias # ""
                                 THEN MapPut(acc.alias_table, field_name, item.alias)
                                 ELSE acc.alias_table],
                Tail(items))
        Named(c1, r, field_name, ty) ==
            IF Contains(acc.fields_names, field_name) THEN fail(c1, r.env)
            ELSE IF item.alias # ""
                    /\ (Contains(c1.selected_fields, item.alias)
                        \/ item.alias \in DOMAIN acc.alias_table)
            THEN fail(c1, r.env)
            ELSE Keep(IF item.alias # ""
                      THEN [c1 EXCEPT !.selected_fields = Append(@, item.alias)] ELSE c1,
                      IF item.alias # "" THEN define(r.env, item.alias, ty) ELSE r.env,
                      r, field_name, ty)
        Generated(c1, r) ==
            Named(c1, r, ColumnName(c1.generated_field_count), expr_type(r.expr, r.env))
        Parsed(r) ==
            IF ~r.ok THEN fail(r.ctx, r.env)
            ELSE IF get_expression_name(r.expr) # ""
            THEN Named(r.ctx, r, get_expression_name(r.expr), expr_type(r.expr, r.env))
            ELSE Generated(generate_column_name(r.ctx), r)
    IN  IF items = <<>> \/ ~acc.ok THEN acc
        ELSE Parsed(parse_expression(acc.ctx, acc.env, item.expr))

RECURSIVE register_current_table_fields_types(_, _)
register_current_table_fields_types(fields, e) ==
    IF fields = <<>> THEN e
    ELSE register_current_table_fields_types(
             Tail(fields), define(e, Head(fields), TABLES_FIELDS_TYPES[Head(fields)]))

type_check_selected_fields(e, fields_names) ==
    \A i \in 1..Len(fields_names) :
        resolve_type(e, fields_names[i]) \notin {"None", "Undefined"}

\* returns [ok, ctx, env, statement]
parse_select_statement(c, e, q) ==
    LET fail(cx, en) == [ok |-> FALSE, ctx |-> cx, env |-> en, statement |-> NoSelect]
        Table(acc, e1) ==
            IF acc.fields_names = <<>> THEN fail(acc.ctx, e1)
            ELSE IF ~type_check_selected_fields(e1, acc.fields_names) THEN fail(acc.ctx, e1)
            ELSE [ok |-> TRUE, ctx |-> acc.ctx, env |-> e1,
                  statement |-> [table_name |-> q.table, fields_names |-> acc.fields_names,
                                 fields_values |-> acc.fields_values,
                                 alias_table |-> acc.alias_table,
                                 is_distinct |-> q.is_distinct]]
        Fields(acc) ==
            IF ~acc.ok THEN fail(acc.ctx, acc.env)
            ELSE IF q.table # "" /\ q.table \notin DOMAIN TABLES_FIELDS_NAMES
            THEN fail(acc.ctx, acc.env)
            ELSE Table(acc, IF q.table # ""
                            THEN register_current_table_fields_types(
                                     TABLES_FIELDS_NAMES[q.table], acc.env)
                            ELSE acc.env)
    IN  Fields(parse_select_items(
                   [ok |-> TRUE, ctx |-> c, env |-> e, fields_names |-> <<>>,
                    fields_values |-> <<>>, alias_table |-> EmptyMap], q.items))

\* parse_where_statement / parse_having_statement: returns [ok, ctx, env, expr]
parse_where_statement(c, e, cl) ==
    LET Condition(r) ==
            IF ~r.ok THEN r
            ELSE IF ~DataTypeEq(expr_type(r.expr, r.env), "Boolean")
            THEN ParseErr(r.ctx, r.env)
            ELSE IF Len(r.ctx.aggregations) # Len(c.aggregations) THEN ParseErr(r.ctx, r.env)
            ELSE r
    IN  Condition(parse_expression(c, e, cl.expr))

parse_having_statement(c, e, cl) ==
    LET Condition(r) ==
            IF ~r.ok THEN r
            ELSE IF ~DataTypeEq(expr_type(r.expr, r.env), "Boolean")
            THEN ParseErr(r.ctx, r.env)
            ELSE r
    IN  Condition(parse_expression(c, e, cl.expr))

parse_group_by_statement(c, e, cl) ==
    IF ~contains(e, cl.field) THEN ParseErr(c, e)
    ELSE ParseOk([c EXCEPT !.has_group_by_statement = TRUE], e, NoExpr)

parse_order_by_statement(c, e, cl) == parse_expression(c, e, cl.expr)

Rejected(e) ==
    [ok |-> FALSE, env |-> e, statements |-> EmptyMap, has_aggregation_function |-> FALSE,
     has_group_by_statement |-> FALSE, hidden_selections |-> <<>>]

\* one clause keyword of the while loop of parse_select_query
parse_clause(c, e, cl) ==
    CASE cl.kind = "where" -> parse_where_statement(c, e, cl)
      [] cl.kind = "having" -> parse_having_statement(c, e, cl)
      [] cl.kind = "group" -> parse_group_by_statement(c, e, cl)
      [] cl.kind = "order" -> parse_order_by_statement(c, e, cl)
      [] OTHER -> ParseOk(c, e, NoExpr)

\* the while loop of parse_select_query over the clauses that follow the select list
RECURSIVE parse_clauses(_, _, _, _)
parse_clauses(c, e, statements, clauses) ==
    LET cl == Head(clauses)
        Statement(r) ==
            CASE cl.kind = "group" -> [field_name |-> cl.field]
              [] cl.kind = "order" ->
                    [arguments |-> <<r.expr>>,
                     sorting_orders |-> <<IF cl.desc THEN "Descending" ELSE "Ascending">>]
              [] cl.kind \in {"limit", "offset"} -> [count |-> cl.count]
              [] OTHER -> [condition |-> r.expr]
        Parsed(r) ==
            IF ~r.ok THEN Rejected(r.env)
            ELSE parse_clauses(r.ctx, r.env, MapPut(statements, cl.kind, Statement(r)),
                               Tail(clauses))
    IN  IF clauses = <<>>
        THEN [ok |-> TRUE, env |-> e,
              statements |-> IF c.aggregations # <<>>
                             THEN MapPut(statements, "aggregation",
                                         [aggregations |-> c.aggregations])
                             ELSE statements,
              has_aggregation_function |-> c.is_single_value_query,
              has_group_by_statement |-> c.has_group_by_statement,
              hidden_selections |->
                  SelectSeq(c.hidden_selections, LAMBDA n : ~Contains(c.selected_fields, n))]
        ELSE IF cl.kind \in DOMAIN statements THEN Rejected(e)
        ELSE IF cl.kind = "having" /\ "group" \notin DOMAIN statements THEN Rejected(e)
        ELSE Parsed(parse_clause(c, e, cl))

\* parse_gql on a SELECT: parse_select_query, then nothing may follow the query
parse_select_query(e, q) ==
    LET Selected(s) ==
            IF ~s.ok THEN Rejected(s.env)
            ELSE parse_clauses(
                     [s.ctx EXCEPT !.is_single_value_query = (s.ctx.aggregations # <<>>)],
                     s.env, [cmd \in {"select"} |-> s.statement], q.clauses)
    IN  Selected(parse_select_statement(ParserContext, e, q))

-----------------------------------------------------------------------------
(* Expression evaluator and row source.  engine_evaluator.rs and           *)
(* engine_function.rs are not part of the sources at hand: these follow    *)
(* the written description of the evaluator and of the row source.         *)

EvalOk(e, v) == [ok |-> TRUE, v |-> v, env |-> e]
EvalErr(e) == [ok |-> FALSE, v |-> NullV, env |-> e]

\* the `?` on the Result of Value::div in the evaluation of an arithmetic expression
Quotient(e, q) == IF q.ok THEN EvalOk(e, q.v) ELSE EvalErr(e)

RECURSIVE evaluate_expression(_, _, _, _)
evaluate_expression(e, x, titles, values) ==
    CASE x.k = "Number" -> EvalOk(e, x.value)
      [] x.k = "Boolean" -> EvalOk(e, BoolV(x.is_true))
      [] x.k = "Symbol" ->
            IF Position(titles, x.name) = 0 \/ Position(titles, x.name) > Len(values)
            THEN EvalErr(e)
            ELSE EvalOk(e, values[Position(titles, x.name)])
      [] x.k = "GlobalVariable" ->
            IF x.name \in DOMAIN e.globals THEN EvalOk(e, e.globals[x.name]) ELSE EvalErr(e)
      [] x.k = "Assignment" ->
            LET r == evaluate_expression(e, x.value, titles, values)
            IN  IF ~r.ok THEN r
                ELSE EvalOk([r.env EXCEPT !.globals = MapPut(@, x.symbol, r.v)], r.v)
      [] x.k \in {"Arithmetic", "Comparison"} ->
            LET l == evaluate_expression(e, x.left, titles, values)
            IN  IF ~l.ok THEN l
                ELSE LET r == evaluate_expression(l.env, x.right, titles, values)
                     IN  IF ~r.ok THEN r
                         ELSE IF x.k = "Arithmetic"
                         THEN Quotient(r.env, div(l.v, r.v))
                         ELSE IF x.operator = ">"
                         THEN EvalOk(r.env, BoolV(compare(l.v, r.v) = "Less"))
                         ELSE EvalOk(r.env, BoolV(l.v = r.v))
      [] OTHER -> EvalErr(e)

get_column_name(alias_table, name) ==
    IF name \in DOMAIN alias_table THEN alias_table[name] ELSE name

\* one physical record of table diffs: the columns the model populates
Record(n, i) == [name |-> TextV(n), insertions |-> IntV(i)]

FieldOfRecord(rec, field, value_expr, e) ==
    IF field \in DOMAIN rec THEN rec[field]
    ELSE IF value_expr.k # "Symbol" /\ evaluate_expression(e, value_expr, <<>>, <<>>).ok
         THEN evaluate_expression(e, value_expr, <<>>, <<>>).v
    ELSE NullV

\* select_rows(env, source, table_name, field_names, titles, field_expressions)
select_gql_objects(e, repo, table_name, fields_names, titles, fields_values) ==
    LET value_expr(i) == IF i <= Len(fields_values) THEN fields_values[i] ELSE NoExpr
    IN  IF table_name = ""
        THEN IF \A i \in 1..Len(fields_values) :
                    evaluate_expression(e, fields_values[i], <<>>, <<>>).ok
             THEN [ok |-> TRUE,
                   rows |-> << [i \in 1..Len(fields_names) |->
                                 evaluate_expression(e, value_expr(i), <<>>, <<>>).v] >>]
             ELSE [ok |-> FALSE, rows |-> <<>>]
        ELSE [ok |-> TRUE,
              rows |-> [r \in 1..Len(repo) |->
                          [i \in 1..Len(fields_names) |->
                              FieldOfRecord(repo[r], fields_names[i], value_expr(i), e)]]]

-----------------------------------------------------------------------------
(* GitQLObject: gitql-ast/src/object.rs *)

GitQLObject == [titles |-> <<>>, groups |-> <<>>]

flat(obj) == [obj EXCEPT !.groups = <<Concat(obj.groups)>>]

-----------------------------------------------------------------------------
(* Statement executor: gitql-engine/src/engine_executor.rs.  Every         *)
(* executor returns [status, obj]; status "err" is Err(String) and         *)
(* "panic" is an unwrap() of None or an index out of bounds.               *)

Done(o) == [status |-> "ok", obj |-> o]
Failed(o) == [status |-> "err", obj |-> o]
Panicked(o) == [status |-> "panic", obj |-> o]

RECURSIVE AppendMissing(_, _)
AppendMissing(names, more) ==
    IF more = <<>> THEN names
    ELSE AppendMissing(IF Contains(names, Head(more)) THEN names
                       ELSE Append(names, Head(more)), Tail(more))

\* execute_select_statement once select_gql_objects has returned `objects`
SelectedObjects(obj, titles, objects) ==
    IF ~objects.ok THEN Failed([obj EXCEPT !.titles = titles])
    ELSE IF obj.groups = <<>>
    THEN Done([titles |-> titles, groups |-> <<objects.rows>>])
    ELSE Done([titles |-> titles,
               groups |-> [obj.groups EXCEPT ![1] = @ \o objects.rows]])

execute_select_statement(e, statement, repo, obj, hidden_selections) ==
    LET fields_names == IF statement.table_name # ""
                        THEN AppendMissing(statement.fields_names, hidden_selections)
                        ELSE statement.fields_names
        titles == obj.titles \o [i \in 1..Len(fields_names) |->
                                    get_column_name(statement.alias_table, fields_names[i])]
    IN  SelectedObjects(obj, titles,
            select_gql_objects(e, repo, statement.table_name, fields_names, titles,
                               statement.fields_values))

\* the filtering loop shared by WHERE and HAVING: returns [ok, rows]
RECURSIVE FilterRows(_, _, _, _)
FilterRows(e, condition, titles, rows) ==
    IF rows = <<>> THEN [ok |-> TRUE, rows |-> <<>>]
    ELSE LET r == evaluate_expression(e, condition, titles, Head(rows))
             rest == FilterRows(e, condition, titles, Tail(rows))
         IN  IF ~r.ok THEN [ok |-> FALSE, rows |-> <<>>]
             ELSE IF ~rest.ok THEN rest
             ELSE [ok |-> TRUE,
                   rows |-> IF as_bool(r.v) THEN <<Head(rows)>> \o rest.rows ELSE rest.rows]

\* a WHERE that returns the group as it found it
execute_where_statement_unfiltered(e, statement, obj) == Done(obj)

execute_where_statement(e, statement, obj) ==
    IF obj.groups = <<>> THEN Done(obj)
    ELSE LET f == FilterRows(e, statement.condition, obj.titles, obj.groups[1])
         IN  IF ~f.ok THEN Failed(obj)
             ELSE Done([obj EXCEPT !.groups = Append(Tail(obj.groups), f.rows)])

execute_having_statement(e, statement, obj) ==
    IF obj.groups = <<>> THEN Done(obj)
    ELSE LET o == IF Len(obj.groups) > 1 THEN flat(obj) ELSE obj
             f == FilterRows(e, statement.condition, o.titles, o.groups[1])
         IN  IF ~f.ok THEN Failed(o)
             ELSE Done([o EXCEPT !.groups = Append(Tail(o.groups), f.rows)])

execute_limit_statement_off_by_one(statement, obj) ==
    IF obj.groups = <<>> THEN Done(obj)
    ELSE LET o == IF Len(obj.groups) > 1 THEN flat(obj) ELSE obj
         IN  IF statement.count < Len(o.groups[1])
             THEN Done([o EXCEPT !.groups[1] = SubSeq(@, 1, statement.count + 1)])
             ELSE Done(o)

execute_limit_statement(statement, obj) ==
    IF obj.groups = <<>> THEN Done(obj)
    ELSE LET o == IF Len(obj.groups) > 1 THEN flat(obj) ELSE obj
         IN  IF statement.count <= Len(o.groups[1])
             THEN Done([o EXCEPT !.groups[1] = SubSeq(@, 1, statement.count)])
             ELSE Done(o)

execute_offset_statement(statement, obj) ==
    IF obj.groups = <<>> THEN Done(obj)
    ELSE LET o == IF Len(obj.groups) > 1 THEN flat(obj) ELSE obj
         IN  Done([o EXCEPT !.groups[1] =
                      SubSeq(@, Min2(statement.count, Len(@)) + 1, Len(@))])

\* a comparator that keeps current_ordering in both directions
OrderComparator_never_reversed(e, statement, titles, a, b) ==
    LET n == Len(statement.arguments)
        key(i, row) == LET r == evaluate_expression(e, statement.arguments[i], titles, row)
                       IN  IF r.ok THEN r.v ELSE NullV
        decisive(i) == ~is_const(statement.arguments[i])
                       /\ compare(key(i, a), key(i, b)) # "Equal"
    IN  IF \E i \in 1..n : decisive(i)
        THEN LET i == CHOOSE j \in 1..n : decisive(j) /\ \A h \in 1..(j - 1) : ~decisive(h)
             IN  compare(key(i, a), key(i, b))
        ELSE "Equal"

\* the closure passed to sort_by
OrderComparator(e, statement, titles, a, b) ==
    LET n == Len(statement.arguments)
        key(i, row) == LET r == evaluate_expression(e, statement.arguments[i], titles, row)
                       IN  IF r.ok THEN r.v ELSE NullV
        decisive(i) == ~is_const(statement.arguments[i])
                       /\ compare(key(i, a), key(i, b)) # "Equal"
    IN  IF \E i \in 1..n : decisive(i)
        THEN LET i == CHOOSE j \in 1..n : decisive(j) /\ \A h \in 1..(j - 1) : ~decisive(h)
                 current_ordering == compare(key(i, a), key(i, b))
             IN  IF statement.sorting_orders[i] = "Descending" THEN current_ordering
                 ELSE Reverse(current_ordering)
        ELSE "Equal"

\* slice::sort_by is a stable sort: insertion from the left, behind equal elements
RECURSIVE InsertStable(_, _, _, _, _)
InsertStable(e, statement, titles, sorted, row) ==
    IF sorted = <<>> THEN <<row>>
    ELSE IF OrderComparator(e, statement, titles, sorted[Len(sorted)], row) = "Greater"
    THEN Append(InsertStable(e, statement, titles, SubSeq(sorted, 1, Len(sorted) - 1), row),
                sorted[Len(sorted)])
    ELSE Append(sorted, row)

RECURSIVE SortRows(_, _, _, _)
SortRows(e, statement, titles, rows) ==
    IF rows = <<>> THEN <<>>
    ELSE InsertStable(e, statement, titles,
                      SortRows(e, statement, titles, SubSeq(rows, 1, Len(rows) - 1)),
                      rows[Len(rows)])

execute_order_by_statement(e, statement, obj) ==
    IF obj.groups = <<>> THEN Done(obj)
    ELSE LET o == IF Len(obj.groups) > 1 THEN flat(obj) ELSE obj
         IN  IF o.groups[1] = <<>> THEN Done(o)
             ELSE Done([o EXCEPT !.groups[1] = SortRows(e, statement, o.titles, @)])

\* a grouping loop that opens a new group for every row
GroupRows_never_joins(rows, field_index, keys, groups) ==
    groups \o [i \in 1..Len(rows) |-> <<rows[i]>>]

\* the loop of execute_group_by_statement: keys holds groups_map in insertion order
RECURSIVE GroupRows(_, _, _, _)
GroupRows(rows, field_index, keys, groups) ==
    IF rows = <<>> THEN groups
    ELSE LET key == as_text(Head(rows)[field_index])
         IN  IF ~Contains(keys, key)
             THEN GroupRows(Tail(rows), field_index, Append(keys, key),
                            Append(groups, <<Head(rows)>>))
             ELSE GroupRows(Tail(rows), field_index, keys,
                            [groups EXCEPT ![Position(keys, key)] = Append(@, Head(rows))])

execute_group_by_statement(statement, obj) ==
    IF obj.groups = <<>> THEN Done(obj)
    ELSE LET main_group == obj.groups[1]
             rest == [obj EXCEPT !.groups = Tail(@)]
             field_index == Position(obj.titles, statement.field_name)
         IN  IF main_group = <<>> THEN Done(rest)
             ELSE IF field_index = 0 \/ \E i \in 1..Len(main_group) : field_index > Len(main_group[i])
             THEN Panicked(rest)
             ELSE Done([rest EXCEPT !.groups = GroupRows(main_group, field_index, <<>>, @)])

\* aggregation_max / aggregation_min: the running extreme over the rows
RECURSIVE Extreme(_, _, _, _)
Extreme(rows, idx, best, replace_on) ==
    IF rows = <<>> THEN best
    ELSE Extreme(Tail(rows), idx,
                 IF compare(best, Head(rows)[idx]) = replace_on THEN Head(rows)[idx] ELSE best,
                 replace_on)

\* an aggregation_max that replaces its candidate on Less, as aggregation_min does
aggregation_max_on_less(field_name, titles, objects) ==
    Extreme(objects, Position(titles, field_name),
            objects[1][Position(titles, field_name)], "Less")

aggregation_max(field_name, titles, objects) ==
    Extreme(objects, Position(titles, field_name),
            objects[1][Position(titles, field_name)], "Greater")

aggregation_min(field_name, titles, objects) ==
    Extreme(objects, Position(titles, field_name),
            objects[1][Position(titles, field_name)], "Less")

aggregation_average(field_name, titles, objects) ==
    IntV(TruncDiv(SumInts(objects, Position(titles, field_name)), Len(objects)))

\* AGGREGATIONS.get(function)(argument, titles, group)
AggregationFunction(function, argument, titles, group) ==
    CASE function = "count" -> aggregation_count(argument, titles, group)
      [] function = "sum" -> aggregation_sum(argument, titles, group)
      [] function = "avg" -> aggregation_average(argument, titles, group)
      [] function = "max" -> aggregation_max(argument, titles, group)
      [] OTHER -> aggregation_min(argument, titles, group)

\* object.values[column_index] = result, or push when the row is shorter
SetColumn(row, column_index, v) ==
    IF column_index <= Len(row) THEN [row EXCEPT ![column_index] = v] ELSE Append(row, v)

\* the aggregations applied to one non-empty group, in turn: [status, rows]
RECURSIVE AggregateGroup(_, _, _, _, _, _)
AggregateGroup(e, aggs, wanted, titles, alias_table, rows) ==
    IF aggs = <<>> THEN [status |-> "ok", rows |-> rows]
    ELSE
    LET a == Head(aggs)
        column_index == Position(titles, get_column_name(alias_table, a.name))
    IN  IF a.kind # wanted THEN AggregateGroup(e, Tail(aggs), wanted, titles, alias_table, rows)
        ELSE IF column_index = 0 THEN [status |-> "panic", rows |-> rows]
        ELSE IF a.kind = "Function"
        THEN IF a.function # "count"
                /\ (Position(titles, a.argument) = 0
                    \/ \E i \in 1..Len(rows) : Position(titles, a.argument) > Len(rows[i]))
             THEN [status |-> "panic", rows |-> rows]
             ELSE AggregateGroup(e, Tail(aggs), wanted, titles, alias_table,
                      [i \in 1..Len(rows) |->
                          SetColumn(rows[i], column_index,
                                    AggregationFunction(a.function, a.argument, titles, rows))])
        ELSE IF \E i \in 1..Len(rows) : ~evaluate_expression(e, a.expr, titles, rows[i]).ok
        THEN [status |-> "err", rows |-> rows]
        ELSE AggregateGroup(e, Tail(aggs), wanted, titles, alias_table,
                 [i \in 1..Len(rows) |->
                     SetColumn(rows[i], column_index,
                               evaluate_expression(e, a.expr, titles, rows[i]).v)])

\* the loop over the groups of execute_aggregation_function_statement
RECURSIVE AggregateGroups(_, _, _, _, _, _)
RECURSIVE AggregatedFunctions(_, _, _, _, _, _, _)
RECURSIVE AggregatedExpressions(_, _, _, _, _, _, _)
AggregateGroups(e, aggs, groups_count, obj, alias_table, g) ==
    IF g > Len(obj.groups) THEN Done(obj)
    ELSE IF obj.groups[g] = <<>>
    THEN AggregateGroups(e, aggs, groups_count, obj, alias_table, g + 1)
    ELSE AggregatedFunctions(e, aggs, groups_count, obj, alias_table, g,
             AggregateGroup(e, aggs, "Function", obj.titles, alias_table, obj.groups[g]))

\* group g after its Function aggregations (f): the Expression aggregations on
\* the rows they left
AggregatedFunctions(e, aggs, groups_count, obj, alias_table, g, f) ==
    IF f.status # "ok" THEN [status |-> f.status, obj |-> [obj EXCEPT !.groups[g] = f.rows]]
    ELSE AggregatedExpressions(e, aggs, groups_count, obj, alias_table, g,
             AggregateGroup(e, aggs, "Expression", obj.titles, alias_table, f.rows))

\* group g after its Expression aggregations (x), then the next group
AggregatedExpressions(e, aggs, groups_count, obj, alias_table, g, x) ==
    IF x.status # "ok" THEN [status |-> x.status, obj |-> [obj EXCEPT !.groups[g] = x.rows]]
    ELSE AggregateGroups(e, aggs, groups_count,
             [obj EXCEPT !.groups[g] = IF groups_count > 1 THEN SubSeq(x.rows, 1, 1)
                                       ELSE x.rows],
             alias_table, g + 1)

execute_aggregation_function_statement(e, statement, obj, alias_table) ==
    IF statement.aggregations = <<>> THEN Done(obj)
    ELSE AggregateGroups(e, statement.aggregations, Len(obj.groups), obj, alias_table, 1)

\* returns [ok, env]
execute_global_variable_statement_writes_first(e, statement) ==
    LET r == evaluate_expression(e, statement.value, <<>>, <<>>)
    IN  [ok |-> r.ok, env |-> [r.env EXCEPT !.globals = MapPut(@, statement.name, r.v)]]

execute_global_variable_statement(e, statement) ==
    LET r == evaluate_expression(e, statement.value, <<>>, <<>>)
    IN  IF ~r.ok THEN [ok |-> FALSE, env |-> r.env]
        ELSE [ok |-> TRUE, env |-> [r.env EXCEPT !.globals = MapPut(@, statement.name, r.v)]]

-----------------------------------------------------------------------------
(* Query orchestrator: gitql-engine/src/engine.rs *)

\* the list with "group" and "where" exchanged
GQL_COMMANDS_group_before_where ==
    <<"select", "group", "where", "aggregation", "having", "order", "offset", "limit">>

GQL_COMMANDS_IN_ORDER ==
    <<"select", "where", "group", "aggregation", "having", "order", "offset", "limit">>

\* impl Display for Value
to_string(v) ==
    CASE v.t = "Integer" -> ToString(v.i)
      [] v.t = "Text" -> v.s
      [] v.t = "Boolean" -> IF v.b THEN "true" ELSE "false"
      [] OTHER -> "Null"

\* the loop of apply_distinct_on_objects_group; seen holds the hashed rows
RECURSIVE DistinctRows(_, _, _)
DistinctRows(rows, titles_count, seen) ==
    IF rows = <<>> THEN <<>>
    ELSE LET row_values == [i \in 1..titles_count |-> to_string(Head(rows)[i])]
         IN  IF row_values \in seen THEN DistinctRows(Tail(rows), titles_count, seen)
             ELSE <<Head(rows)>> \o DistinctRows(Tail(rows), titles_count, seen \cup {row_values})

apply_distinct_on_objects_group(obj, hidden_selections) ==
    IF obj.groups = <<>> THEN Done(obj)
    ELSE LET titles_count ==
                 Len(SelectSeq(obj.titles, LAMBDA t : ~Contains(hidden_selections, t)))
         IN  IF \E i \in 1..Len(obj.groups[1]) : titles_count > Len(obj.groups[1][i])
             THEN Panicked(obj)
             ELSE Done([obj EXCEPT !.groups[1] = DistinctRows(@, titles_count, {})])

\* execute_statement, Select arm, once per repository in turn: [status, obj, calls]
RECURSIVE SelectOnRepos(_, _, _, _, _, _)
RECURSIVE SelectOnNextRepo(_, _, _, _, _, _)
SelectOnRepos(e, statement, rs, obj, hidden_selections, calls) ==
    IF rs = <<>> THEN [status |-> "ok", obj |-> obj, calls |-> calls]
    ELSE SelectOnNextRepo(e, statement, rs, hidden_selections, calls,
             execute_select_statement(e, statement, Head(rs), obj, hidden_selections))

\* the `?` on execute_statement for one repository (r), then the next repository
SelectOnNextRepo(e, statement, rs, hidden_selections, calls, r) ==
    IF r.status # "ok" THEN [status |-> r.status, obj |-> r.obj, calls |-> calls + 1]
    ELSE SelectOnRepos(e, statement, Tail(rs), r.obj, hidden_selections, calls + 1)

\* the tail of evaluate_select_query, after the loop over the commands
CollapseGroups(q, obj) ==
    IF Len(obj.groups) > 1
    THEN [obj EXCEPT !.groups = [g \in 1..Len(@) |-> SubSeq(@[g], 1, Min2(1, Len(@[g])))]]
    ELSE IF Len(obj.groups) = 1 /\ ~q.has_group_by_statement /\ q.has_aggregation_function
    THEN [obj EXCEPT !.groups[1] = SubSeq(@, 1, Min2(1, Len(@)))]
    ELSE obj

-----------------------------------------------------------------------------
(* Inputs of the SELECT pipeline *)

Records == {Record("a", 1), Record("b", 2)}

\* up to MaxRepos repositories holding up to MaxRows records between them
RepoSets ==
    {rs \in UNION {[1..n -> SeqsUpTo(Records, MaxRows)] : n \in 1..MaxRepos} :
        Len(Concat(rs)) <= MaxRows}

InsertionsOverOne ==
    ComparisonExpression(SymbolExpression("insertions"), ">", NumberExpression(IntV(1)))

CountName == CallSource("count", SymbolExpression("name"))

CountOverOne == ComparisonExpression(CountName, ">", NumberExpression(IntV(1)))

ClauseChoices ==
    {Clause("where", InsertionsOverOne, "", 0, FALSE),
     Clause("group", NoExpr, "name", 0, FALSE),
     Clause("having", CountOverOne, "", 0, FALSE),
     Clause("order", CountName, "", 0, TRUE),
     Clause("offset", NoExpr, "", 1, FALSE),
     Clause("limit", NoExpr, "", 1, FALSE)}

ClauseSeqs ==
    {cs \in SeqsUpTo(ClauseChoices, MaxClauses) :
        \A i, j \in 1..Len(cs) : i # j => cs[i].kind # cs[j].kind}

Source(d, items, t, cs) == [is_distinct |-> d, items |-> items, table |-> t, clauses |-> cs]

\* select lists with an alias: a fresh name, the name of the field selected
\* after it, and the name generated for the expression selected after it
AliasHeads ==
    {Source(FALSE, <<SelectItem(SymbolExpression("name"), a), SelectItem(x, "")>>, "diffs", <<>>) :
        a \in {"author"}, x \in {SymbolExpression("insertions")}}
    \cup {Source(FALSE, <<SelectItem(SymbolExpression("name"), "insertions"),
                          SelectItem(SymbolExpression("insertions"), "")>>, "diffs", <<>>),
          Source(FALSE, <<SelectItem(SymbolExpression("name"), "column_1"),
                          SelectItem(NumberExpression(IntV(1)), "")>>, "diffs", <<>>)}

SelectHeads ==
    {Source(FALSE, <<SelectItem(SymbolExpression("name"), "")>>, "diffs", <<>>),
     Source(TRUE, <<SelectItem(SymbolExpression("name"), "")>>, "diffs", <<>>),
     Source(FALSE, <<SelectItem(CountName, "")>>, "diffs", <<>>),
     Source(FALSE, <<SelectItem(NumberExpression(IntV(1)), "")>>, "", <<>>)}
    \cup AliasHeads

Sources == {[h EXCEPT !.clauses = cs] : h \in SelectHeads, cs \in ClauseSeqs}

\* b holds the clauses of a in another written order
IsReordering(a, b) ==
    /\ Len(a) = Len(b)
    /\ \E p \in Permutations(1..Len(a)) : b = [i \in 1..Len(a) |-> a[p[i]]]

NoSource == Source(FALSE, <<>>, "", <<>>)
NoState ==
    [obj |-> GitQLObject, alias_table |-> EmptyMap, index |-> 1, trace |-> <<>>,
     status |-> "running"]
NoPage == [obj |-> GitQLObject, original |-> <<>>, offset |-> 0, limit |-> 0, step |-> "idle"]
NoSession ==
    [step |-> "idle", queries |-> 0, before |-> EmptyEnv, static |-> "Undefined",
     value |-> NullV]

-----------------------------------------------------------------------------
(* evaluate_select_query, one iteration of its loop at a time.  The locals *)
(* are s = [obj, alias_table, index, trace, status]: index is the position *)
(* in GQL_COMMANDS_IN_ORDER, trace lists the execute_statement calls made, *)
(* status is "running" until the function returns or unwinds.              *)

\* the outcome r of one execute_statement call, recorded in the locals
Advance(s, r, cmd) ==
    [s EXCEPT !.obj = r.obj, !.trace = Append(@, cmd),
              !.index = IF r.status = "ok" THEN @ + 1 ELSE @,
              !.status = IF r.status = "ok" THEN "running" ELSE r.status]

\* the "select" arm of the match
SelectStep(q, e, rs, s) ==
    LET statement == q.statements["select"]
        empty(o) == o.groups = <<>> \/ o.groups[1] = <<>>
        Distinct(r) ==
            IF r.status = "ok" /\ ~empty(r.obj) /\ statement.table_name # ""
               /\ statement.is_distinct
            THEN apply_distinct_on_objects_group(r.obj, q.hidden_selections)
            ELSE [status |-> r.status, obj |-> r.obj]
        Store(calls, d) ==
            [s EXCEPT !.obj = d.obj,
                      !.alias_table = statement.alias_table,
                      !.trace = @ \o [i \in 1..calls |-> "select"],
                      !.index = IF d.status = "ok" /\ ~empty(d.obj) THEN @ + 1 ELSE @,
                      !.status = IF d.status # "ok" THEN d.status
                                 ELSE IF empty(d.obj) THEN "ok" ELSE "running"]
        Selected(r) == Store(r.calls, Distinct(r))
    IN  Selected(SelectOnRepos(e, statement,
                               IF statement.table_name = "" THEN <<rs[1]>> ELSE rs,
                               s.obj, q.hidden_selections, 0))

\* the body of the loop for the command at s.index, or the tail after the loop
Step(q, e, rs, s) ==
    LET cmd == GQL_COMMANDS_IN_ORDER[s.index]
        statement == q.statements[cmd]
    IN  IF s.index > Len(GQL_COMMANDS_IN_ORDER)
        THEN [s EXCEPT !.obj = CollapseGroups(q, @), !.status = "ok"]
        ELSE IF cmd \notin DOMAIN q.statements THEN [s EXCEPT !.index = @ + 1]
        ELSE CASE cmd = "select" -> SelectStep(q, e, rs, s)
               [] cmd = "where" ->
                    Advance(s, execute_where_statement(e, statement, s.obj), cmd)
               [] cmd = "group" ->
                    Advance(s, execute_group_by_statement(statement, s.obj), cmd)
               [] cmd = "aggregation" ->
                    Advance(s, execute_aggregation_function_statement(
                                   e, statement, s.obj, s.alias_table), cmd)
               [] cmd = "having" ->
                    Advance(s, execute_having_statement(e, statement, s.obj), cmd)
               [] cmd = "order" ->
                    Advance(s, execute_order_by_statement(e, statement, s.obj), cmd)
               [] cmd = "offset" ->
                    Advance(s, execute_offset_statement(statement, s.obj), cmd)
               [] OTHER ->
                    Advance(s, execute_limit_statement(statement, s.obj), cmd)

\* evaluate_select_query from its first statement to its return
RECURSIVE evaluate_select_query(_, _, _, _)
evaluate_select_query(q, e, rs, s) ==
    IF s.status # "running" THEN s ELSE evaluate_select_query(q, e, rs, Step(q, e, rs, s))

-----------------------------------------------------------------------------
(* The SELECT pipeline as a state machine: parse_gql, then one action per  *)
(* iteration of the loop of evaluate_select_query, then the final collapse. *)
(* The expressions of Sources hold no assignment, so that running a query  *)
(* leaves the Environment as the parser left it.                           *)

Init ==
    /\ src \in Sources
    /\ repos \in RepoSets
    /\ env = EmptyEnv
    /\ query = Rejected(EmptyEnv)
    /\ st = NoState
    /\ pc = "parse"
    /\ pg = NoPage
    /\ op = "none"
    /\ sess = NoSession

ParseGql ==
    /\ pc = "parse"
    /\ query' = parse_select_query(env, src)
    /\ env' = query'.env
    /\ pc' = IF query'.ok THEN "run" ELSE "rejected"
    /\ UNCHANGED <<src, repos, st, pg, op, sess>>

\* the loop is at command cmd and the query holds a statement for it
Running(cmd) ==
    /\ pc = "run"
    /\ st.index <= Len(GQL_COMMANDS_IN_ORDER)
    /\ GQL_COMMANDS_IN_ORDER[st.index] = cmd
    /\ cmd \in DOMAIN query.statements

Iterate ==
    /\ st' = Step(query, env, repos, st)
    /\ pc' = IF st'.status = "running" THEN "run" ELSE "done"
    /\ UNCHANGED <<src, repos, env, query, pg, op, sess>>

SkipCommand ==
    /\ pc = "run"
    /\ st.index <= Len(GQL_COMMANDS_IN_ORDER)
    /\ GQL_COMMANDS_IN_ORDER[st.index] \notin DOMAIN query.statements
    /\ Iterate

ExecSelect == Running("select") /\ Iterate

ExecWhere == Running("where") /\ Iterate

ExecGroup == Running("group") /\ Iterate

ExecAggregation == Running("aggregation") /\ Iterate

ExecHaving == Running("having") /\ Iterate

ExecOrder == Running("order") /\ Iterate

ExecOffset == Running("offset") /\ Iterate

ExecLimit == Running("limit") /\ Iterate

Finish ==
    /\ pc = "run"
    /\ st.index > Len(GQL_COMMANDS_IN_ORDER)
    /\ Iterate

Next ==
    \/ ParseGql
    \/ SkipCommand
    \/ ExecSelect
    \/ ExecWhere
    \/ ExecGroup
    \/ ExecAggregation
    \/ ExecHaving
    \/ ExecOrder
    \/ ExecOffset
    \/ ExecLimit
    \/ Finish

Spec == Init /\ [][Next]_vars


-----------------------------------------------------------------------------
(* Properties of the SELECT pipeline *)

\* evaluate_select_query has returned Ok
Returned == pc = "done" /\ st.status = "ok"

\* evaluate_select_query has returned Ok from behind its loop
ReturnedAfterLoop == Returned /\ st.index > Len(GQL_COMMANDS_IN_ORDER)

Count(trace, cmd) == Cardinality({i \in 1..Len(trace) : trace[i] = cmd})

\* C1: after evaluate_select_query returns successfully, every row of every
\* group has exactly as many values as the object has titles, and the titles
\* hold each column once, however many repositories were visited.
C1_TitlesOnceRowsParity ==
    Returned =>
        /\ \A g \in 1..Len(st.obj.groups) : \A r \in 1..Len(st.obj.groups[g]) :
               Len(st.obj.groups[g][r]) = Len(st.obj.titles)
        /\ \A i, j \in 1..Len(st.obj.titles) :
               st.obj.titles[i] = st.obj.titles[j] => i = j

\* the order of execution as the claim lists it
ClaimedOrder ==
    <<"select", "where", "group", "aggregation", "having", "order", "offset", "limit">>

InClaimedOrder(trace) ==
    \A i, j \in 1..Len(trace) :
        i < j => Position(ClaimedOrder, trace[i]) <= Position(ClaimedOrder, trace[j])

\* C2 as stated: the statements run in the claimed order, and when the call
\* has returned each present statement has run exactly once, select once per
\* repository.
C2_EachStatementExactlyOnce ==
    /\ InClaimedOrder(st.trace)
    /\ Returned =>
           \A cmd \in DOMAIN query.statements :
               Count(st.trace, cmd) = IF cmd = "select" THEN Len(repos) ELSE 1

\* the number of times a present statement runs when nothing cuts the loop short
Runs(cmd) == IF cmd = "select" /\ src.table # "" THEN Len(repos) ELSE 1

\* C2 amended: the statements run in the claimed order whatever order the
\* clauses were written in, only statements of the query run, each at most
\* once (select once per repository when a table is named, once when none
\* is), and exactly that often when the call returns from behind its loop.
C2_FixedOrderAtMostOnce ==
    /\ InClaimedOrder(st.trace)
    /\ \A i \in 1..Len(st.trace) : st.trace[i] \in DOMAIN query.statements
    /\ \A cmd \in DOMAIN query.statements : Count(st.trace, cmd) <= Runs(cmd)
    /\ ReturnedAfterLoop =>
           \A cmd \in DOMAIN query.statements : Count(st.trace, cmd) = Runs(cmd)

\* two repositories, two clauses written against the order of execution, and
\* every statement of the query has run
C2_Witness ==
    /\ ReturnedAfterLoop
    /\ Len(repos) = 2
    /\ Len(src.clauses) = 2
    /\ Position(ClaimedOrder, src.clauses[1].kind) > Position(ClaimedOrder, src.clauses[2].kind)
    /\ Count(st.trace, "select") = 2
    /\ Len(st.trace) >= 4

\* C3: when the query has a GROUP BY, every group of the returned object
\* holds at most one row.
C3_GroupByOneRowPerGroup ==
    (Returned /\ "group" \in DOMAIN query.statements) =>
        \A g \in 1..Len(st.obj.groups) : Len(st.obj.groups[g]) <= 1

\* C4: with an aggregate function in the select list, no GROUP BY, OFFSET or
\* LIMIT, and a select step that produced a row, the returned object has a
\* single group of exactly one row, whatever WHERE keeps.
C4_AggregateSingleRow ==
    (/\ ReturnedAfterLoop
     /\ \E i \in 1..Len(src.items) : src.items[i].expr.k = "Call"
     /\ DOMAIN query.statements \cap {"group", "offset", "limit"} = {}) =>
        /\ Len(st.obj.groups) = 1
        /\ Len(st.obj.groups[1]) = 1

\* the queries that differ from s only in the written order of the clauses
Reorderings(s) ==
    {o \in Sources : /\ o.is_distinct = s.is_distinct
                     /\ o.table = s.table
                     /\ o.items = s.items
                     /\ IsReordering(s.clauses, o.clauses)}

\* parse_gql, then evaluate_select_query on a fresh Environment: the result
ResultOf(s) ==
    LET Run(q) == [ok |-> q.ok, hidden_selections |-> q.hidden_selections,
                   final |-> IF q.ok THEN evaluate_select_query(q, q.env, repos, NoState)
                             ELSE NoState]
    IN  Run(parse_select_query(EmptyEnv, s))

SameResult(a, b) ==
    /\ a.final.status = b.final.status
    /\ a.final.status = "ok" =>
           /\ a.final.obj = b.final.obj
           /\ a.hidden_selections = b.hidden_selections

\* C5: two queries that differ only in the written order of their clauses,
\* both accepted by the parser, give the same titles, rows and hidden
\* selections on the same data and environment.
C5_ClauseOrderIndependent ==
    pc = "done" =>
        \A o \in Reorderings(src) : ResultOf(o).ok => SameResult(ResultOf(o), ResultOf(src))

\* C8: when parse_gql returns a diagnostic, globals, globals_types and scopes
\* are as they were before the call.
C8_DiagnosticLeavesEnvironment == [][(pc = "parse" /\ pc' = "rejected") => env' = env]_vars


-----------------------------------------------------------------------------
(* OFFSET and LIMIT on their own: execute_offset_statement then            *)
(* execute_limit_statement, or execute_limit_statement alone, on an object *)
(* of no, one or two groups.                                               *)

PageRows == {<<TextV("a")>>, <<TextV("b")>>}

PageObjects ==
    {[titles |-> <<"name">>, groups |-> gs] :
        gs \in {g \in SeqsUpTo(SeqsUpTo(PageRows, MaxRows + 1), MaxGroups) :
                   Len(Concat(g)) <= MaxRows + 1}}

PageInit ==
    /\ pg \in {[obj |-> o, original |-> Concat(o.groups), offset |-> k, limit |-> n,
                step |-> "start"] :
                  o \in PageObjects, k \in 0..MaxCount, n \in 0..MaxCount}
    /\ src = NoSource
    /\ repos = <<>>
    /\ env = EmptyEnv
    /\ query = Rejected(EmptyEnv)
    /\ st = NoState
    /\ pc = "page"
    /\ op = "none"
    /\ sess = NoSession

PageOffset ==
    /\ pg.step = "start"
    /\ pg' = [pg EXCEPT !.obj = execute_offset_statement([count |-> pg.offset], @).obj,
                        !.step = "offset"]
    /\ UNCHANGED <<src, repos, env, query, st, pc, op, sess>>

PageLimit ==
    /\ pg.step \in {"start", "offset"}
    /\ pg' = [pg EXCEPT !.obj = execute_limit_statement([count |-> pg.limit], @).obj,
                        !.step = IF pg.step = "start" THEN "limit_only" ELSE "limit"]
    /\ UNCHANGED <<src, repos, env, query, st, pc, op, sess>>

PageNext ==
    \/ PageOffset
    \/ PageLimit

PageSpec == PageInit /\ [][PageNext]_vars

\* C6: on a row sequence R of length L, OFFSET k then LIMIT n leaves exactly
\* R[k .. min(k+n, L)) in the original order; OFFSET 0 leaves R unchanged,
\* OFFSET k with k >= L leaves no rows, LIMIT n with n >= L leaves R unchanged.
C6_OffsetLimitWindow ==
    LET R == pg.original
        L == Len(pg.original)
        rows == Concat(pg.obj.groups)
    IN  /\ pg.step = "offset" =>
               /\ rows = SubSeq(R, Min2(pg.offset, L) + 1, L)
               /\ pg.offset = 0 => rows = R
               /\ pg.offset >= L => rows = <<>>
        /\ pg.step = "limit" =>
               rows = [i \in 1..(Min2(pg.offset + pg.limit, L) - Min2(pg.offset, L)) |->
                          R[pg.offset + i]]
        /\ (pg.step = "limit_only" /\ pg.limit >= L) => rows = R

\* OFFSET 1 then LIMIT 1 on three rows has left the middle row
C6_Witness ==
    /\ pg.step = "limit"
    /\ pg.offset = 1
    /\ pg.limit = 1
    /\ Len(pg.original) = 3
    /\ Concat(pg.obj.groups) = <<pg.original[2]>>

-----------------------------------------------------------------------------
(* The Environment under its own API: define, define_global and            *)
(* clear_session in any order, and the write of a global's value that      *)
(* execute_global_variable_statement makes.                                *)

LocalNames == {"name", "column_1"}

DataTypes == {"Integer", "Boolean"}

EnvInit ==
    /\ env = EmptyEnv
    /\ op = "none"
    /\ sess = NoSession
    /\ src = NoSource
    /\ repos = <<>>
    /\ query = Rejected(EmptyEnv)
    /\ st = NoState
    /\ pc = "api"
    /\ pg = NoPage

\* one call on the Environment, recorded with the Environment it found
Call(name, e) ==
    /\ sess.queries < MaxCalls
    /\ env' = e
    /\ op' = name
    /\ sess' = [sess EXCEPT !.queries = @ + 1, !.before = env]
    /\ UNCHANGED <<src, repos, query, st, pc, pg>>

Define == \E n \in LocalNames, ty \in DataTypes : Call("define", define(env, n, ty))

DefineGlobal ==
    \E n \in GlobalNames, ty \in DataTypes : Call("define_global", define_global(env, n, ty))

InsertGlobal ==
    \E n \in GlobalNames, v \in {IntV(1), BoolV(TRUE)} :
        Call("insert", [env EXCEPT !.globals = MapPut(@, n, v)])

ClearSession == Call("clear_session", clear_session(env))

EnvNext ==
    \/ Define
    \/ DefineGlobal
    \/ InsertGlobal
    \/ ClearSession

EnvSpec == EnvInit /\ [][EnvNext]_vars

\* C10: after any sequence of define, define_global and clear_session calls,
\* clear_session leaves scopes empty and leaves globals and globals_types
\* exactly as they were.
C10_ClearSessionDropsOnlyScopes ==
    op = "clear_session" =>
        /\ env.scopes = EmptyMap
        /\ env.globals = sess.before.globals
        /\ env.globals_types = sess.before.globals_types

\* clear_session has just emptied a non-empty scope and kept a global's
\* value and type
C10_Witness ==
    /\ op = "clear_session"
    /\ sess.before.scopes # EmptyMap
    /\ env.scopes = EmptyMap
    /\ DOMAIN env.globals # {}
    /\ DOMAIN env.globals_types # {}


-----------------------------------------------------------------------------
(* A session of SET queries on one Environment: parse_gql, then evaluate.  *)
(* A source is [name, value, trailing]: SET name = value, followed or not  *)
(* by further tokens.                                                      *)

One == NumberExpression(IntV(1))

OneByZero == ArithmeticExpression(One, "/", NumberExpression(IntV(0)))

SetValues ==
    {One,
     BooleanExpression(TRUE),
     GlobalVariableExpression("@x"),
     ComparisonExpression(OneByZero, "=", One),
     ArithmeticExpression(AssignmentExpression("@y", NumberExpression(IntV(2))), "/",
                          NumberExpression(IntV(0)))}

SetSources ==
    {[name |-> n, value |-> v, trailing |-> t] :
        n \in GlobalNames, v \in SetValues, t \in BOOLEAN}

NoStatement == [name |-> "", value |-> NoExpr]

\* returns [ok, env, statement]
parse_set_query(e, s) ==
    LET Value(r) ==
            IF ~r.ok THEN [ok |-> FALSE, env |-> r.env, statement |-> NoStatement]
            ELSE IF r.ctx.aggregations # <<>>
            THEN [ok |-> FALSE, env |-> r.env, statement |-> NoStatement]
            ELSE [ok |-> TRUE,
                  env |-> define_global(r.env, s.name, expr_type(r.expr, r.env)),
                  statement |-> [name |-> s.name, value |-> r.expr]]
    IN  Value(parse_expression(ParserContext, e, s.value))

\* parse_gql on a SET: parse_set_query, then nothing may follow the statement
parse_gql(e, s) ==
    LET Checked(r) == IF r.ok /\ s.trailing THEN [r EXCEPT !.ok = FALSE] ELSE r
    IN  Checked(parse_set_query(e, s))

SessionInit ==
    /\ env = EmptyEnv
    /\ sess = NoSession
    /\ op = "none"
    /\ src = [name |-> "", value |-> NoExpr, trailing |-> FALSE]
    /\ query = [ok |-> FALSE, env |-> EmptyEnv, statement |-> NoStatement]
    /\ repos = <<>>
    /\ st = NoState
    /\ pc = "session"
    /\ pg = NoPage

\* parse_gql on the next query of the session
Compile ==
    /\ sess.step = "idle"
    /\ sess.queries < MaxQueries
    /\ \E s \in SetSources :
          /\ src' = s
          /\ query' = parse_gql(env, s)
    /\ env' = query'.env
    /\ op' = IF query'.ok THEN "compiled" ELSE "diagnostic"
    /\ sess' = [step |-> IF query'.ok THEN "compiled" ELSE "idle",
                queries |-> sess.queries + 1,
                before |-> env,
                static |-> IF query'.ok THEN query'.env.globals_types[src'.name]
                           ELSE "Undefined",
                value |-> NullV]
    /\ UNCHANGED <<repos, st, pc, pg>>

\* evaluate on Query::GlobalVariableDeclaration
Execute ==
    /\ sess.step = "compiled"
    /\ LET Ran(r) ==
               /\ env' = r.env
               /\ op' = IF r.ok THEN "set" ELSE "failed"
               /\ sess' = [sess EXCEPT !.step = "idle", !.before = env,
                                       !.value = IF r.ok THEN r.env.globals[query.statement.name]
                                                 ELSE NullV]
       IN  Ran(execute_global_variable_statement(env, query.statement))
    /\ UNCHANGED <<src, repos, query, st, pc, pg>>

SessionNext ==
    \/ Compile
    \/ Execute

SessionSpec == SessionInit /\ [][SessionNext]_vars

\* C7: an expression the parser typed Boolean never evaluates to a value
\* that is not a Boolean, in any query of a session on one Environment,
\* earlier SET statements that failed included.
C7_BooleanTypedIsBoolean ==
    (op = "set" /\ sess.static = "Boolean") => sess.value.t = "Boolean"

\* C9 as stated: when the right-hand side of a SET fails at runtime,
\* env.globals is unchanged.
C9_FailedSetLeavesGlobals == op = "failed" => env.globals = sess.before.globals

\* the globals that the assignment expressions inside x write
RECURSIVE AssignedIn(_)
AssignedIn(x) ==
    CASE x.k = "Assignment" -> {x.symbol} \cup AssignedIn(x.value)
      [] x.k \in {"Arithmetic", "Comparison"} -> AssignedIn(x.left) \cup AssignedIn(x.right)
      [] OTHER -> {}

SameEntry(m1, m2, n) ==
    /\ (n \in DOMAIN m1) = (n \in DOMAIN m2)
    /\ n \in DOMAIN m1 => m1[n] = m2[n]

\* C9 amended: when the right-hand side of a SET fails at runtime the
\* statement writes nothing: every global that no assignment expression of
\* the right-hand side names keeps its value or stays absent, the variable
\* of the SET among them.
C9_FailedSetWritesNothingItself ==
    op = "failed" =>
        \A n \in GlobalNames \ AssignedIn(query.statement.value) :
            SameEntry(env.globals, sess.before.globals, n)

\* C24: between the queries of a session on one Environment, whether they
\* succeeded, failed to compile or failed at runtime, a global that has both a
\* value and a recorded type has a value of that type, and every global with a
\* recorded type, which a later query type-checks against, has a value
C24_GlobalsAgreeWithTypes ==
    sess.step = "idle" =>
        \A n \in GlobalNames :
            /\ (n \in DOMAIN env.globals /\ n \in DOMAIN env.globals_types)
                  => data_type(env.globals[n]) = env.globals_types[n]
            /\ n \in DOMAIN env.globals_types => n \in DOMAIN env.globals

\* a SET of a variable that had a value has failed, and the variable kept it
C9_Witness ==
    /\ op = "failed"
    /\ query.statement.name \in DOMAIN sess.before.globals
    /\ query.statement.name \notin AssignedIn(query.statement.value)
    /\ env.globals[query.statement.name] = sess.before.globals[query.statement.name]

-----------------------------------------------------------------------------
(* The executor steps on their own: WHERE, GROUP BY, ORDER BY and DISTINCT  *)
(* applied to the object execute_select_statement builds over one or more  *)
(* repositories.  pg holds the object before and after the step.           *)

\* the object after the select step of SELECT [DISTINCT] <names> FROM diffs,
\* with the hidden selections a later clause of the query left behind
StepInit ==
    LET records == {Record(n, i) : n \in {"a", "b"}, i \in {1, 2}}
        repoSets ==
            {rs \in UNION {[1..n -> SeqsUpTo(records, MaxRows + 1)] : n \in 1..MaxRepos} :
                Len(Concat(rs)) <= MaxRows + 1}
        select(names) ==
            [NoSelect EXCEPT !.table_name = "diffs", !.fields_names = names,
                             !.fields_values = [i \in 1..Len(names) |->
                                                   SymbolExpression(names[i])]]
        heads == {[names |-> <<"name", "insertions">>, hidden |-> <<>>],
                  [names |-> <<"name">>, hidden |-> <<"insertions">>],
                  [names |-> <<"name">>, hidden |-> <<>>]}
        selected(rs, h) ==
            SelectOnRepos(EmptyEnv, select(h.names), rs, GitQLObject, h.hidden, 0).obj
        start(o, h) == [obj |-> o, before |-> o, hidden |-> h, statement |-> NoSelect,
                        step |-> "start", status |-> "ok"]
    IN  /\ pg \in {start(selected(rs, h), h.hidden) : rs \in repoSets, h \in heads}
        /\ src = NoSource
        /\ repos = <<>>
        /\ env = EmptyEnv
        /\ query = Rejected(EmptyEnv)
        /\ st = NoState
        /\ pc = "step"
        /\ op = "none"
        /\ sess = NoSession

\* the outcome r of executing statement s on pg.obj
StepTo(name, s, r) ==
    /\ pg' = [pg EXCEPT !.before = pg.obj, !.obj = r.obj, !.statement = s,
                        !.step = name, !.status = r.status]
    /\ UNCHANGED <<src, repos, env, query, st, pc, op, sess>>

StepWhere ==
    /\ pg.step = "start"
    /\ pg.obj.groups[1] # <<>>
    /\ \E c \in {InsertionsOverOne, BooleanExpression(TRUE), BooleanExpression(FALSE),
                 ComparisonExpression(OneByZero, "=", One)} :
          StepTo("where", [condition |-> c],
                 execute_where_statement(env, [condition |-> c], pg.obj))

StepGroup ==
    /\ pg.step = "start"
    /\ \E f \in {"name", "insertions"} :
          StepTo("group", [field_name |-> f],
                 execute_group_by_statement([field_name |-> f], pg.obj))

StepOrder ==
    /\ pg.step = "start"
    /\ LET keys == {SymbolExpression("name"), SymbolExpression("insertions"), One}
       IN  \E n \in 1..2 : \E a \in [1..n -> keys] :
           \E o \in [1..n -> {"Ascending", "Descending"}] :
              StepTo("order", [arguments |-> a, sorting_orders |-> o],
                     execute_order_by_statement(env, [arguments |-> a, sorting_orders |-> o],
                                                pg.obj))

\* DISTINCT at the end of select, and DISTINCT applied to its own output
StepDistinct ==
    /\ pg.step \in {"start", "distinct"}
    /\ pg.status = "ok"
    /\ pg.obj.groups[1] # <<>>
    /\ StepTo(IF pg.step = "start" THEN "distinct" ELSE "distinct_again", NoSelect,
              apply_distinct_on_objects_group(pg.obj, pg.hidden))

StepNext ==
    \/ StepWhere
    \/ StepGroup
    \/ StepOrder
    \/ StepDistinct

StepSpec == StepInit /\ [][StepNext]_vars

-----------------------------------------------------------------------------
(* Properties of the executor steps *)

\* C12: after the WHERE step the first group holds exactly the rows of the
\* previous first group whose condition evaluated to Boolean true, in their
\* original order; nothing is added, duplicated or altered and the titles
\* are unchanged.
C12_WhereKeepsTrueRows ==
    (pg.step = "where" /\ pg.status = "ok") =>
        LET holds(row) ==
                LET r == evaluate_expression(env, pg.statement.condition,
                                             pg.before.titles, row)
                IN  r.ok /\ r.v = BoolV(TRUE)
        IN  /\ pg.obj.titles = pg.before.titles
            /\ Len(pg.obj.groups) = 1
            /\ pg.obj.groups[1] = SelectSeq(pg.before.groups[1], holds)

\* a WHERE that kept some rows of three and dropped the others
C12_Witness ==
    /\ pg.step = "where"
    /\ pg.status = "ok"
    /\ Len(pg.before.groups[1]) = 3
    /\ Len(pg.obj.groups[1]) \in {1, 2}

\* C13: the GROUP BY step partitions the rows of the main group by their
\* bucket key (the as_text form of the grouping field): every row is in
\* exactly one group, rows keep their relative order inside a group, no
\* group is empty, and the groups come in the order of the first row that
\* carries their key.
C13_GroupByPartitions ==
    (pg.step = "group" /\ pg.status = "ok" /\ pg.before.groups[1] # <<>>) =>
        LET rows == pg.before.groups[1]
            idx == Position(pg.before.titles, pg.statement.field_name)
            key(row) == as_text(row[idx])
            first(k) == CHOOSE i \in 1..Len(rows) :
                            key(rows[i]) = k /\ \A j \in 1..(i - 1) : key(rows[j]) # k
            groups == pg.obj.groups
            with(k, row) == key(row) = k
        IN  /\ pg.obj.titles = pg.before.titles
            /\ Len(Concat(groups)) = Len(rows)
            /\ \A g \in 1..Len(groups) :
                  /\ groups[g] # <<>>
                  /\ groups[g] = SelectSeq(rows, LAMBDA row : key(row) = key(groups[g][1]))
            /\ \A g, h \in 1..Len(groups) :
                  g < h => first(key(groups[g][1])) < first(key(groups[h][1]))

\* rows a, b, a: two groups, the second a joined the first group
C13_Witness ==
    /\ pg.step = "group"
    /\ pg.status = "ok"
    /\ pg.statement.field_name = "name"
    /\ Len(pg.before.groups[1]) = 3
    /\ Len(pg.obj.groups) = 2
    /\ Len(pg.obj.groups[1]) = 2
    /\ pg.obj.groups[2] = <<pg.before.groups[1][2]>>

\* C25: after the GROUP BY step on a column of any type, two rows are in the
\* same group exactly when their values in the grouping column are equal, and
\* there are as many groups as distinct values in that column
C25_GroupByValueOfAnyType ==
    (pg.step = "group" /\ pg.status = "ok" /\ pg.before.groups[1] # <<>>) =>
        LET rows == pg.before.groups[1]
            idx == Position(pg.before.titles, pg.statement.field_name)
            groups == pg.obj.groups
        IN  /\ \A g, h \in 1..Len(groups) :
                  \A i \in 1..Len(groups[g]) : \A j \in 1..Len(groups[h]) :
                     (g = h) <=> (groups[g][i][idx] = groups[h][j][idx])
            /\ Len(groups) = Cardinality({rows[i][idx] : i \in 1..Len(rows)})

\* a is the smaller of two values of one type
Smaller(a, b) ==
    /\ a.t = b.t
    /\ \/ a.t = "Integer" /\ a.i < b.i
       \/ a.t = "Text" /\ TextRank(a.s) < TextRank(b.s)

C15_DistinctIdempotentFirstWins ==
    /\ (pg.step = "distinct_again" /\ pg.status = "ok") => pg.obj = pg.before
    /\ (pg.step = "distinct" /\ pg.status = "ok") =>
        LET rows == pg.before.groups[1]
            titles == pg.before.titles
            shown(row) == {i \in 1..Len(titles) :
                              ~Contains(pg.hidden, titles[i]) /\ i <= Len(row)}
            visible(row) == [i \in shown(row) |-> row[i]]
            firsts == SelectSeq([j \in 1..Len(rows) |-> j],
                                LAMBDA j : \A h \in 1..(j - 1) :
                                              visible(rows[h]) # visible(rows[j]))
        IN  /\ pg.obj.titles = titles
            /\ pg.obj.groups[1] = [p \in 1..Len(firsts) |-> rows[firsts[p]]]

-----------------------------------------------------------------------------
(* DataType with its composite variants: gitql-ast/src/types.rs *)

\* a DataType as a term: the variant's name and its payload
Scalar(n) == [k |-> n, ts |-> <<>>]
Variant(types) == [k |-> "Variant", ts |-> types]
Optional(t) == [k |-> "Optional", ts |-> <<t>>]
Varargs(t) == [k |-> "Varargs", ts |-> <<t>>]

\* impl PartialEq for DataType
RECURSIVE eq(_, _)
eq(self, other) ==
    IF self.k = "Any" \/ other.k = "Any" THEN TRUE
    ELSE IF self.k = "Variant" THEN \E i \in 1..Len(self.ts) : eq(self.ts[i], other)
    ELSE IF other.k = "Variant" THEN \E i \in 1..Len(other.ts) : eq(other.ts[i], self)
    ELSE IF self.k = "Optional" THEN eq(self.ts[1], other)
    ELSE IF other.k = "Optional" THEN eq(other.ts[1], self)
    ELSE IF self.k = "Varargs" THEN eq(self.ts[1], other)
    ELSE IF other.k = "Varargs" THEN eq(other.ts[1], self)
    ELSE IF self.k \in {"Integer", "Float"} /\ other.k \in {"Integer", "Float"} THEN TRUE
    ELSE self.k = other.k

-----------------------------------------------------------------------------
(* Value arithmetic and equality: gitql-ast/src/value.rs *)

\* the value an i64 register holds after an operation whose exact result is n
Wrapped(n) == ((n - MinInt) % (2 ^ IntWidth)) + MinInt

\* i64::checked_add, checked_sub: None when the exact result is not the wrapped one
checked(n) == IF Wrapped(n) = n THEN [some |-> TRUE, v |-> n] ELSE [some |-> FALSE, v |-> 0]

\* i64::overflowing_mul: <<the wrapped product, whether it overflowed>>
overflowing_mul(lhs, rhs) == <<Wrapped(lhs * rhs), Wrapped(lhs * rhs) # lhs * rhs>>

\* the f64 n / d in lowest terms with a positive denominator (d # 0)
Float(n, d) ==
    LET g == Gcd(Abs(n), Abs(d))
    IN  FloatV((IF (n < 0) = (d < 0) THEN 1 ELSE -1) * (Abs(n) \div g), Abs(d) \div g)

\* f64 +, - and * on finite operands
FloatPlus(x, y) == Float(x[1] * y[2] + y[1] * x[2], x[2] * y[2])
FloatMinus(x, y) == Float(x[1] * y[2] - y[1] * x[2], x[2] * y[2])
FloatMul(x, y) == Float(x[1] * y[1], x[2] * y[2])

\* f64 % on finite operands: x - trunc(x / y) * y, NaN for a zero divisor
FloatRem(x, y) ==
    IF y[1] = 0 THEN FloatV(0, 0)
    ELSE Float(x[1] * y[2] - TruncDiv(x[1] * y[2], x[2] * y[1]) * y[1] * x[2], x[2] * y[2])

\* the operand of a Float branch: as_float() of a Float, `as_int() as f64` of an
\* Integer
AsF64(v) == IF v.t = "Integer" THEN <<as_int(v), 1>> ELSE as_float(v)

IsNumber(v) == v.t \in {"Integer", "Float"}

ValueOk(v) == [ok |-> TRUE, trap |-> FALSE, v |-> v]
ValueErr == [ok |-> FALSE, trap |-> FALSE, v |-> NullV]
ValueTrap == [ok |-> FALSE, trap |-> TRUE, v |-> NullV]

\* Value::plus
plus(self, other) ==
    IF self.t = "Integer" /\ other.t = "Integer"
    THEN (LET sum == checked(as_int(self) + as_int(other))
          IN  IF sum.some THEN ValueOk(IntV(sum.v)) ELSE ValueErr)
    ELSE IF IsNumber(self) /\ IsNumber(other)
    THEN ValueOk(FloatPlus(AsF64(self), AsF64(other)))
    ELSE ValueOk(IntV(0))

\* Value::minus
minus(self, other) ==
    IF self.t = "Integer" /\ other.t = "Integer"
    THEN (LET sub == checked(as_int(self) - as_int(other))
          IN  IF sub.some THEN ValueOk(IntV(sub.v)) ELSE ValueErr)
    ELSE IF IsNumber(self) /\ IsNumber(other)
    THEN ValueOk(FloatMinus(AsF64(self), AsF64(other)))
    ELSE ValueOk(IntV(0))

\* a mul that returns the wrapped product whatever the overflow flag says
mul_unchecked(self, other) ==
    IF self.t = "Integer" /\ other.t = "Integer"
    THEN ValueOk(IntV(overflowing_mul(as_int(self), as_int(other))[1]))
    ELSE IF IsNumber(self) /\ IsNumber(other)
    THEN ValueOk(FloatMul(AsF64(self), AsF64(other)))
    ELSE ValueOk(IntV(0))

\* Value::mul
mul(self, other) ==
    IF self.t = "Integer" /\ other.t = "Integer"
    THEN (LET multi_result == overflowing_mul(as_int(self), as_int(other))
          IN  IF multi_result[2] THEN ValueErr ELSE ValueOk(IntV(multi_result[1])))
    ELSE IF IsNumber(self) /\ IsNumber(other)
    THEN ValueOk(FloatMul(AsF64(self), AsF64(other)))
    ELSE ValueOk(IntV(0))

\* i64 %: the remainder has the sign of the dividend
TruncRem(a, b) == a - TruncDiv(a, b) * b

\* Value::modulus: Err for an Integer zero divisor; the i64 `%` aborts on
\* MIN % -1 as the `/` does
modulus(self, other) ==
    IF other.t = "Integer" /\ as_int(other) = 0 THEN ValueErr
    ELSE IF self.t = "Integer" /\ other.t = "Integer"
    THEN (IF as_int(self) = MinInt /\ as_int(other) = -1 THEN ValueTrap
          ELSE ValueOk(IntV(TruncRem(as_int(self), as_int(other)))))
    ELSE IF IsNumber(self) /\ IsNumber(other)
    THEN ValueOk(FloatRem(AsF64(self), AsF64(other)))
    ELSE ValueOk(IntV(0))

\* f64 ==: NaN equals nothing
FloatEq(x, y) == x = y /\ x # <<0, 0>>

\* Value::equals: the guard compares the types with DataType's ==, the match is
\* on the variant of self.data_type()
equals(self, other) ==
    IF ~DataTypeEq(data_type(self), data_type(other)) THEN FALSE
    ELSE CASE self.t = "Text" -> as_text(self) = as_text(other)
           [] self.t = "Integer" -> as_int(self) = as_int(other)
           [] self.t = "Float" -> FloatEq(as_float(self), as_float(other))
           [] self.t = "Boolean" -> as_bool(self) = as_bool(other)
           [] self.t = "DateTime" -> as_date_time(self) = as_date_time(other)
           [] self.t = "Date" -> as_date(self) = as_date(other)
           [] self.t = "Time" -> as_time(self) = as_time(other)
           [] self.t = "Null" -> TRUE
           [] OTHER -> FALSE

-----------------------------------------------------------------------------
(* Tokenizer, block comments: gitql-parser/src/tokenizer.rs.  chars is the   *)
(* sequence of characters and pos the 0-based index of the source, so that   *)
(* chars[pos] of the source is chars[pos + 1] here.                          *)

\* the `while` of ignore_c_style_comment: the position it stops at
RECURSIVE comment_scan(_, _)
comment_scan(chars, pos) ==
    IF pos + 1 < Len(chars) /\ (chars[pos + 1] # "*" /\ chars[pos + 2] # "/")
    THEN comment_scan(chars, pos + 1)
    ELSE pos

\* the end of ignore_c_style_comment, once the loop has stopped at pos
comment_end(chars, pos) ==
    IF pos + 2 > Len(chars) THEN [kind |-> "Err", pos |-> pos]
    ELSE [kind |-> "Ok", pos |-> pos + 2]

\* ignore_c_style_comment(chars, &mut pos), entered with pos on the `/` of `/*`
ignore_c_style_comment(chars, pos) == comment_end(chars, comment_scan(chars, pos + 2))

-----------------------------------------------------------------------------
(* Type checker: gitql-parser/src/type_checker.rs, gitql-ast/src/date_utils.rs *)

\* the string literals of the model: one of each canonical format and one of none
TimeLiteral == "12:36:31"
DateLiteral == "2024-01-01"
DateTimeLiteral == "2024-01-01 12:36:31"

is_valid_time_format(time_str) == time_str = TimeLiteral

is_valid_date_format(date_str) == date_str = DateLiteral

is_valid_datetime_format(datetime_str) == datetime_str = DateTimeLiteral

Casted(side, literal, ty) == [kind |-> side, expr |-> StringExpression(literal, ty)]

\* are_types_equals: Equals, or the Text literal of one side re-typed, or a
\* diagnostic for a literal of the wrong format, or NotEqualAndCantImplicitCast
are_types_equals(scope, lhs, rhs) ==
    LET lhs_type == expr_type(lhs, scope)
        rhs_type == expr_type(rhs, scope)
        Cast(ty, valid(_)) ==
            IF lhs_type = ty /\ rhs_type = "Text" /\ rhs.k = "String"
            THEN (IF ~valid(rhs.value) THEN [kind |-> "Error"]
                  ELSE Casted("RightSideCasted", rhs.value, ty))
            ELSE IF lhs_type = "Text" /\ rhs_type = ty /\ lhs.k = "String"
            THEN (IF ~valid(lhs.value) THEN [kind |-> "Error"]
                  ELSE Casted("LeftSideCasted", lhs.value, ty))
            ELSE [kind |-> "none"]
    IN  IF DataTypeEq(lhs_type, rhs_type) THEN [kind |-> "Equals"]
        ELSE IF Cast("Time", is_valid_time_format).kind # "none"
             THEN Cast("Time", is_valid_time_format)
        ELSE IF Cast("Date", is_valid_date_format).kind # "none"
             THEN Cast("Date", is_valid_date_format)
        ELSE IF Cast("DateTime", is_valid_datetime_format).kind # "none"
             THEN Cast("DateTime", is_valid_datetime_format)
        ELSE [kind |-> "NotEqualAndCantImplicitCast"]

-----------------------------------------------------------------------------
(* The pure functions of the type and value layer, each applied once to      *)
(* operands drawn from small sets.                                           *)

NoResult == [kind |-> "none"]

TypeInit ==
    LET leaves == {Scalar(n) : n \in {"Any", "Integer", "Float", "Text"}}
        shallow == leaves \cup {Variant(ts) : ts \in SeqsUpTo(leaves, 2)}
                       \cup {Optional(t) : t \in leaves} \cup {Varargs(t) : t \in leaves}
        types == shallow \cup {Variant(<<t>>) : t \in shallow}
                      \cup {Optional(t) : t \in shallow} \cup {Varargs(t) : t \in shallow}
        exprs == {NumberExpression(IntV(1)), NumberExpression(FloatV(1, 1)),
                  BooleanExpression(TRUE), GlobalVariableExpression("@x")}
                 \cup {StringExpression(v, "Text") :
                          v \in {TimeLiteral, DateLiteral, DateTimeLiteral, "a"}}
        scopes == {define_global(EmptyEnv, "@x", ty) :
                      ty \in {"Integer", "Float", "Time", "Date", "DateTime"}}
        Operands(fn, S, E) ==
            {[fn |-> fn, self |-> a, other |-> b, scope |-> e,
              step |-> "start", result |-> NoResult, mirrored |-> NoResult] :
                a \in S, b \in S, e \in E}
        values == {IntV(n) : n \in MinInt..MaxInt}
                  \cup {FloatV(n, 1) : n \in MinInt..MaxInt}
                  \cup {FloatV(1, 2), TextV("a"), BoolV(TRUE), NullV}
        others == {TextV("b"), BoolV(FALSE), DateTimeV(1), DateTimeV(2), DateV(1),
                   TimeV(TimeLiteral)}
        columns == {{IntV(n) : n \in MinInt..MaxInt},
                    {FloatV(n, 1) : n \in -1..1} \cup {FloatV(1, 2)},
                    {TextV("a"), TextV("b")},
                    {DateTimeV(1), DateTimeV(2)},
                    {DateV(1), DateV(2)},
                    {TimeV(TimeLiteral), TimeV("13:00:00")}}
        keys == {IntV(0), IntV(1), IntV(2), TextV("a"), NullV}
        orderings == {[arguments |-> <<x>>, sorting_orders |-> <<o>>] :
                         x \in {SymbolExpression("field1"),
                                ArithmeticExpression(NumberExpression(IntV(2)), "/",
                                                     SymbolExpression("field1"))},
                         o \in {"Ascending", "Descending"}}
        texts == {<<"/", "*">> \o t : t \in SeqsUpTo({"*", "/", "a"}, MaxChars)}
        groups == UNION {{[i \in 1..n |-> <<c[i]>>] : c \in [1..n -> column]} :
                            n \in 1..MaxColumn, column \in columns}
    IN  /\ pg \in Operands("eq", types, {EmptyEnv})
                    \cup UNION {Operands(fn, values, {EmptyEnv}) :
                                   fn \in {"div", "modulus", "plus", "minus", "mul"}}
                    \cup Operands("equals", values \cup others, {EmptyEnv})
                    \cup {[fn |-> "extremes", self |-> [rows |-> g], other |-> [name |-> "field1"],
                           scope |-> EmptyEnv, step |-> "start", result |-> NoResult,
                           mirrored |-> NoResult] : g \in groups}
                    \cup {[fn |-> "ignore_c_style_comment", self |-> [chars |-> t],
                           other |-> [pos |-> 0], scope |-> EmptyEnv, step |-> "start",
                           result |-> NoResult, mirrored |-> NoResult] : t \in texts}
                    \cup {[fn |-> "sort_by", self |-> [rows |-> <<<<a>>, <<b>>, <<c>>>>],
                           other |-> o, scope |-> EmptyEnv, step |-> "start",
                           result |-> NoResult, mirrored |-> NoResult] :
                              a \in keys, b \in keys, c \in keys, o \in orderings}
                    \cup Operands("are_types_equals", exprs, scopes)
        /\ src = NoSource
        /\ repos = <<>>
        /\ env = EmptyEnv
        /\ query = Rejected(EmptyEnv)
        /\ st = NoState
        /\ pc = "apply"
        /\ op = "none"
        /\ sess = NoSession

Applied(r, m) ==
    /\ pg.step = "start"
    /\ pg' = [pg EXCEPT !.step = "applied", !.result = r, !.mirrored = m]
    /\ UNCHANGED <<src, repos, env, query, st, pc, op, sess>>

\* a == b, and b == a on the same pair
TypeEq ==
    /\ pg.fn = "eq"
    /\ Applied([kind |-> "bool", b |-> eq(pg.self, pg.other)],
               [kind |-> "bool", b |-> eq(pg.other, pg.self)])

\* are_types_equals(scope, lhs, rhs), and the same with the operands swapped
TypeCheck ==
    /\ pg.fn = "are_types_equals"
    /\ Applied(are_types_equals(pg.scope, pg.self, pg.other),
               are_types_equals(pg.scope, pg.other, pg.self))

DivResult(r) ==
    [kind |-> IF r.trap THEN "panic" ELSE IF r.ok THEN "Ok" ELSE "Err", v |-> r.v]

\* self.div(other), and other.div(self)
ValueDiv ==
    /\ pg.fn = "div"
    /\ Applied(DivResult(div(pg.self, pg.other)), DivResult(div(pg.other, pg.self)))

\* self.modulus(other), and other.modulus(self)
ValueModulus ==
    /\ pg.fn = "modulus"
    /\ Applied(DivResult(modulus(pg.self, pg.other)), DivResult(modulus(pg.other, pg.self)))

ValuePlus ==
    /\ pg.fn = "plus"
    /\ Applied(DivResult(plus(pg.self, pg.other)), DivResult(plus(pg.other, pg.self)))

ValueMinus ==
    /\ pg.fn = "minus"
    /\ Applied(DivResult(minus(pg.self, pg.other)), DivResult(minus(pg.other, pg.self)))

ValueMul ==
    /\ pg.fn = "mul"
    /\ Applied(DivResult(mul(pg.self, pg.other)), DivResult(mul(pg.other, pg.self)))

\* self.equals(other), and other.equals(self)
ValueEquals ==
    /\ pg.fn = "equals"
    /\ Applied([kind |-> "bool", b |-> equals(pg.self, pg.other)],
               [kind |-> "bool", b |-> equals(pg.other, pg.self)])

\* aggregation_max over the group (result) and aggregation_min (mirrored)
AggregateExtremes ==
    /\ pg.fn = "extremes"
    /\ Applied([kind |-> "value", v |-> aggregation_max(pg.other.name, <<pg.other.name>>,
                                                 pg.self.rows)],
               [kind |-> "value", v |-> aggregation_min(pg.other.name, <<pg.other.name>>,
                                                 pg.self.rows)])

\* the closure of sort_by on the pairs of three rows a, b, c: (a, b), (b, c) and
\* (a, c) in result, (b, a) in mirrored
CompareRows ==
    LET cmp(i, j) == OrderComparator(pg.scope, pg.other, <<"field1">>,
                                     pg.self.rows[i], pg.self.rows[j])
    IN  /\ pg.fn = "sort_by"
        /\ Applied([kind |-> "orderings", ab |-> cmp(1, 2), bc |-> cmp(2, 3), ac |-> cmp(1, 3)],
                   [kind |-> "orderings", ab |-> cmp(2, 1), bc |-> cmp(3, 2), ac |-> cmp(3, 1)])

\* ignore_c_style_comment on a text that opens a block comment at pos
SkipComment ==
    /\ pg.fn = "ignore_c_style_comment"
    /\ Applied(ignore_c_style_comment(pg.self.chars, pg.other.pos), NoResult)

TypeNext ==
    \/ AggregateExtremes
    \/ SkipComment
    \/ CompareRows
    \/ TypeEq
    \/ TypeCheck
    \/ ValueDiv
    \/ ValueModulus
    \/ ValuePlus
    \/ ValueMinus
    \/ ValueMul
    \/ ValueEquals

TypeSpec == TypeInit /\ [][TypeNext]_vars

\* C18: DataType equality is symmetric: (a == b) holds exactly when (b == a)
\* holds, for nested Variant, Optional and Varargs and the empty Variant too
C18_EqSymmetric ==
    (pg.step = "applied" /\ pg.fn = "eq") => pg.result.b = pg.mirrored.b

\* C19: are_types_equals on an expression of static type Integer and one of
\* static type Float returns NotEqualAndCantImplicitCast, in either order
C19_IntegerFloatNotEqual ==
    (/\ pg.step = "applied"
     /\ pg.fn = "are_types_equals"
     /\ expr_type(pg.self, pg.scope) = "Integer"
     /\ expr_type(pg.other, pg.scope) = "Float")
    => /\ pg.result.kind = "NotEqualAndCantImplicitCast"
       /\ pg.mirrored.kind = "NotEqualAndCantImplicitCast"

\* q is a / b rounded toward zero
IsIntegerQuotient(a, b, q) ==
    LET r == a - q * b
    IN  Abs(r) < Abs(b) /\ (r = 0 \/ (r > 0) = (a > 0))

\* v is the Float x / y: for a finite quotient v * y = x, by cross-multiplication
IsFloatQuotient(x, y, v) ==
    /\ v.t = "Float"
    /\ (y[1] = 0) = (v.d = 0)
    /\ y[1] # 0 => v.i * (x[2] * y[1]) = v.d * (x[1] * y[2])

Fraction(v) == IF v.t = "Float" THEN <<v.i, v.d>> ELSE <<v.i, 1>>

Exact ==
    CASE pg.fn = "plus" -> as_int(pg.self) + as_int(pg.other)
      [] pg.fn = "minus" -> as_int(pg.self) - as_int(pg.other)
      [] OTHER -> as_int(pg.self) * as_int(pg.other)

IntegerOperands == pg.self.t = "Integer" /\ pg.other.t = "Integer"

\* C21: on Integer operands plus, minus and mul return Ok with the exact result
\* when it lies in the range of the Integer, and Err otherwise: never a wrapped
\* or truncated value
C21_CheckedArithmetic ==
    (pg.step = "applied" /\ pg.fn \in {"plus", "minus", "mul"} /\ IntegerOperands)
    => IF Exact \in MinInt..MaxInt
       THEN pg.result = [kind |-> "Ok", v |-> IntV(Exact)]
       ELSE pg.result.kind = "Err"

\* a product outside the range was refused and one inside it returned
C21_Witness ==
    /\ pg.step = "applied" /\ pg.fn = "mul" /\ IntegerOperands
    /\ Exact \notin MinInt..MaxInt
    /\ pg.result.kind = "Err"
    /\ pg.mirrored.kind = "Err"

\* C29: on Integer operands, the minimum Integer and -1 included, div and
\* modulus return Ok or Err and never abort
C29_DivModulusNeverTrap ==
    (pg.step = "applied" /\ pg.fn \in {"div", "modulus"} /\ IntegerOperands)
    => pg.result.kind \in {"Ok", "Err"}

\* C30: equals is true only on two values of the same variant with equal
\* payloads, never on values of different variants, and it is symmetric
C30_EqualsSameVariant ==
    (pg.step = "applied" /\ pg.fn = "equals")
    => /\ pg.result.b => pg.self = pg.other
       /\ pg.result.b = pg.mirrored.b

\* a is less than b, for two values of one type
Below(a, b) ==
    CASE a.t = "Float" -> a.i * b.d < b.i * a.d
      [] a.t \in {"Text", "Time"} -> TextRank(a.s) < TextRank(b.s)
      [] OTHER -> a.i < b.i

ColumnOfGroup == {pg.self.rows[i][1] : i \in 1..Len(pg.self.rows)}

\* C23: over a non-empty group whose column holds values of one type,
\* aggregation_max returns the greatest value of the column and aggregation_min
\* the least, and compare returns Greater exactly when its receiver is the
\* smaller value
C23_MaxMinExtremes ==
    (pg.step = "applied" /\ pg.fn = "extremes")
    => /\ pg.result.v \in ColumnOfGroup
       /\ pg.mirrored.v \in ColumnOfGroup
       /\ \A v \in ColumnOfGroup : ~Below(pg.result.v, v) /\ ~Below(v, pg.mirrored.v)
       /\ \A a, b \in ColumnOfGroup : Below(a, b) <=> compare(a, b) = "Greater"

\* the example of the claim: max is 3 and min is 1 over the values 1, 2, 3
C23_Witness ==
    /\ pg.step = "applied" /\ pg.fn = "extremes"
    /\ pg.self.rows = << <<IntV(1)>>, <<IntV(2)>>, <<IntV(3)>> >>
    /\ pg.result.v = IntV(3)
    /\ pg.mirrored.v = IntV(1)

\* C28: the comparator of ORDER BY is a consistent ordering of the rows: it is
\* antisymmetric, and "orders before" and "ties with" are transitive, also over
\* keys that are Null, come from a failed evaluation or differ in type
C28_ComparatorConsistent ==
    (pg.step = "applied" /\ pg.fn = "sort_by")
    => /\ pg.mirrored.ab = Reverse(pg.result.ab)
       /\ (pg.result.ab = "Less" /\ pg.result.bc = "Less") => pg.result.ac = "Less"
       /\ (pg.result.ab = "Equal" /\ pg.result.bc = "Equal") => pg.result.ac = "Equal"

\* the 0-based positions of the `*` of a `*/` after the opening `/*`
Closings ==
    {i \in (pg.other.pos + 2)..(Len(pg.self.chars) - 2) :
        pg.self.chars[i + 1] = "*" /\ pg.self.chars[i + 2] = "/"}

\* C22: a block comment is skipped in full: the tokenizer resumes at the
\* character right after the first `*/` that follows the `/*`, whatever the
\* comment contains, and a `/*` with no following `*/` yields a diagnostic
C22_BlockCommentSkipped ==
    (pg.step = "applied" /\ pg.fn = "ignore_c_style_comment")
    => IF Closings = {} THEN pg.result.kind = "Err"
       ELSE /\ pg.result.kind = "Ok"
            /\ pg.result.pos - 2 \in Closings
            /\ \A i \in Closings : pg.result.pos - 2 <= i

-----------------------------------------------------------------------------
(* The parser on tokens: gitql-parser/src/parser.rs, for a SET statement.    *)
(* `position` counts from 0 as in the source. A parse returns                *)
(* [status, expr, position, env]: "ok" with the expression, "err" for a      *)
(* Diagnostic, "panic" where the code indexes the tokens past their end or   *)
(* an empty vector. The token alphabet has no SELECT, `:=`, IS, NOT, IN,     *)
(* BETWEEN, LIKE, GLOB, `!`, `-` and no aggregation name: the statement is a *)
(* SET, ParserContext stays as created, and the assignment, IS NULL, IN,     *)
(* BETWEEN, LIKE, GLOB and prefix-unary levels return their operand.         *)

Token(kind, literal) == [kind |-> kind, literal |-> literal]

\* tokens[*position].kind, for a position inside the vector
KindAt(tokens, position) == tokens[position + 1].kind

consume_kind(tokens, position, kind) ==
    position < Len(tokens) /\ KindAt(tokens, position) = kind

Parsed(e, position, e2) == [status |-> "ok", expr |-> e, position |-> position, env |-> e2]
Diagnostic(position, e2) ==
    [status |-> "err", expr |-> NoExpr, position |-> position, env |-> e2]
Abort(position, e2) ==
    [status |-> "panic", expr |-> NoExpr, position |-> position, env |-> e2]

\* a Diagnostic located at tokens[index].location, read without a bounds check
LocatedAt(tokens, index, position, e2) ==
    IF index < Len(tokens) THEN Diagnostic(position, e2) ELSE Abort(position, e2)

is_expression_type_equals(scope, expr, ty) ==
    LET ety == expr_type(expr, scope)
        Cast(valid) ==
            IF ~valid THEN [kind |-> "Error"]
            ELSE Casted("RightSideCasted", expr.value, ty)
    IN  IF DataTypeEq(ety, ty) THEN [kind |-> "Equals"]
        ELSE IF ety = "Text" /\ expr.k = "String" /\ ty = "Time"
             THEN Cast(is_valid_time_format(expr.value))
        ELSE IF ety = "Text" /\ expr.k = "String" /\ ty = "Date"
             THEN Cast(is_valid_date_format(expr.value))
        ELSE IF ety = "Text" /\ expr.k = "String" /\ ty = "DateTime"
             THEN Cast(is_valid_datetime_format(expr.value))
        ELSE [kind |-> "NotEqualAndCantImplicitCast"]

\* check_function_call_arguments for parameters with no Optional or Varargs last
\* parameter: [ok, arguments], the arguments with the literals re-typed by a cast
check_function_call_arguments(e, arguments, parameters) ==
    LET Check(i) == is_expression_type_equals(e, arguments[i], parameters[i])
    IN  IF Len(arguments) # Len(parameters) THEN [ok |-> FALSE, arguments |-> arguments]
        ELSE [ok |-> \A i \in 1..Len(parameters) :
                        Check(i).kind \in {"Equals", "RightSideCasted", "LeftSideCasted"},
              arguments |-> [i \in 1..Len(arguments) |->
                                IF Check(i).kind \in {"RightSideCasted", "LeftSideCasted"}
                                THEN Check(i).expr ELSE arguments[i]]]

RECURSIVE parse_logical_or_expression(_, _, _)
RECURSIVE parse_logical_and_expression(_, _, _)
RECURSIVE parse_bitwise_or_expression(_, _, _)
RECURSIVE parse_logical_xor_expression(_, _, _)
RECURSIVE parse_bitwise_and_expression(_, _, _)
RECURSIVE parse_equality_expression(_, _, _)
RECURSIVE parse_comparison_expression(_, _, _)
RECURSIVE parse_bitwise_shift_expression(_, _, _)
RECURSIVE parse_term_expression(_, _, _)
RECURSIVE parse_factor_expression(_, _, _)
RECURSIVE parse_call_expression(_, _, _)
RECURSIVE parse_arguments_expressions(_, _, _)
RECURSIVE parse_primary_expression(_, _, _)
RECURSIVE parse_group_expression(_, _, _)
RECURSIVE parse_case_expression(_, _, _)

RECURSIVE Ascend(_, _, _, _)

\* parse_expression on tokens: no aggregation is ever registered, so the
\* expression is returned as parsed; the assignment, IS NULL and BETWEEN levels
\* pass their operand on (no `:=`, IS or BETWEEN token is enumerated), which
\* leaves parse_in_expression on top of the OR level
parse_tokens_expression(e, tokens, position) ==
    Ascend(1, 12, tokens, parse_primary_expression(e, tokens, position))

\* the operand check shared by the five Boolean-operand levels, after the
\* operator is consumed: lhs must be Boolean (located at tokens[*position - 2]),
\* then rhs is parsed and must be Boolean (located at tokens[*position])
BooleanOperands(tokens, lhs, r) ==
    IF r.status # "ok" THEN r
    ELSE IF ~DataTypeEq(expr_type(r.expr, r.env), "Boolean")
    THEN LocatedAt(tokens, r.position, r.position, r.env)
    ELSE r

\* the `while` of parse_logical_or_expression, entered with lhs parsed
RECURSIVE logical_or_loop(_, _)
logical_or_loop(tokens, lhs) ==
    IF ~(lhs.position < Len(tokens) /\ KindAt(tokens, lhs.position) = "LogicalOr")
    THEN lhs
    ELSE IF ~DataTypeEq(expr_type(lhs.expr, lhs.env), "Boolean")
    THEN Diagnostic(lhs.position + 1, lhs.env)
    ELSE LET Rhs(r) ==
                 IF r.status # "ok" THEN r
                 ELSE logical_or_loop(tokens, Parsed(LogicalExpression(lhs.expr, "Or", r.expr),
                                  r.position, r.env))
         IN  Rhs(BooleanOperands(tokens, lhs,
                    parse_logical_and_expression(lhs.env, tokens, lhs.position + 1)))

parse_logical_or_expression(e, tokens, position) ==
    Ascend(1, 11, tokens, parse_primary_expression(e, tokens, position))

\* the `while` of parse_logical_and_expression, entered with lhs parsed
RECURSIVE logical_and_loop(_, _)
logical_and_loop(tokens, lhs) ==
    IF ~(lhs.position < Len(tokens) /\ KindAt(tokens, lhs.position) = "LogicalAnd")
    THEN lhs
    ELSE IF ~DataTypeEq(expr_type(lhs.expr, lhs.env), "Boolean")
    THEN Diagnostic(lhs.position + 1, lhs.env)
    ELSE LET Rhs(r) ==
                 IF r.status # "ok" THEN r
                 ELSE logical_and_loop(tokens, Parsed(LogicalExpression(lhs.expr, "And", r.expr),
                                  r.position, r.env))
         IN  Rhs(BooleanOperands(tokens, lhs,
                    parse_bitwise_or_expression(lhs.env, tokens, lhs.position + 1)))

parse_logical_and_expression(e, tokens, position) ==
    Ascend(1, 10, tokens, parse_primary_expression(e, tokens, position))

\* an `if`, not a `while`: one operator at most
bitwise_or_once(tokens, lhs) ==
    IF lhs.position >= Len(tokens) THEN lhs
    ELSE IF KindAt(tokens, lhs.position) # "BitwiseOr" THEN lhs
    ELSE IF ~DataTypeEq(expr_type(lhs.expr, lhs.env), "Boolean")
    THEN Diagnostic(lhs.position + 1, lhs.env)
    ELSE LET Rhs(r) ==
                 IF r.status # "ok" THEN r
                 ELSE Parsed(BitwiseExpression(lhs.expr, "Or", r.expr),
                             r.position, r.env)
         IN  Rhs(BooleanOperands(tokens, lhs,
                    parse_logical_xor_expression(lhs.env, tokens, lhs.position + 1)))

parse_bitwise_or_expression(e, tokens, position) ==
    Ascend(1, 9, tokens, parse_primary_expression(e, tokens, position))

\* the `while` of parse_logical_xor_expression, entered with lhs parsed
RECURSIVE logical_xor_loop(_, _)
logical_xor_loop(tokens, lhs) ==
    IF ~(lhs.position < Len(tokens) /\ KindAt(tokens, lhs.position) = "LogicalXor")
    THEN lhs
    ELSE IF ~DataTypeEq(expr_type(lhs.expr, lhs.env), "Boolean")
    THEN Diagnostic(lhs.position + 1, lhs.env)
    ELSE LET Rhs(r) ==
                 IF r.status # "ok" THEN r
                 ELSE logical_xor_loop(tokens, Parsed(LogicalExpression(lhs.expr, "Xor", r.expr),
                                  r.position, r.env))
         IN  Rhs(BooleanOperands(tokens, lhs,
                    parse_bitwise_and_expression(lhs.env, tokens, lhs.position + 1)))

parse_logical_xor_expression(e, tokens, position) ==
    Ascend(1, 8, tokens, parse_primary_expression(e, tokens, position))

\* an `if`, not a `while`: one operator at most
bitwise_and_once(tokens, lhs) ==
    IF lhs.position >= Len(tokens) THEN lhs
    ELSE IF KindAt(tokens, lhs.position) # "BitwiseAnd" THEN lhs
    ELSE IF ~DataTypeEq(expr_type(lhs.expr, lhs.env), "Boolean")
    THEN Diagnostic(lhs.position + 1, lhs.env)
    ELSE LET Rhs(r) ==
                 IF r.status # "ok" THEN r
                 ELSE Parsed(BitwiseExpression(lhs.expr, "And", r.expr),
                             r.position, r.env)
         IN  Rhs(BooleanOperands(tokens, lhs,
                    parse_equality_expression(lhs.env, tokens, lhs.position + 1)))

parse_bitwise_and_expression(e, tokens, position) ==
    Ascend(1, 7, tokens, parse_primary_expression(e, tokens, position))

\* the type check shared by the equality and comparison levels: the operands as
\* are_types_equals leaves them, or the Diagnostic
TypeChecked(lhs, operator, r) ==
    LET Compared(check) ==
            CASE check.kind = "Equals" ->
                    Parsed(ComparisonExpression(lhs.expr, operator, r.expr), r.position, r.env)
              [] check.kind = "RightSideCasted" ->
                    Parsed(ComparisonExpression(lhs.expr, operator, check.expr),
                           r.position, r.env)
              [] check.kind = "LeftSideCasted" ->
                    Parsed(ComparisonExpression(check.expr, operator, r.expr),
                           r.position, r.env)
              [] OTHER -> Diagnostic(r.position, r.env)
    IN  IF r.status # "ok" THEN r ELSE Compared(are_types_equals(r.env, lhs.expr, r.expr))

\* an `if`, not a `while`: one operator at most
equality_once(tokens, lhs) ==
    IF lhs.position >= Len(tokens) THEN lhs
    ELSE IF KindAt(tokens, lhs.position) \notin {"Equal", "BangEqual"} THEN lhs
    ELSE TypeChecked(lhs,
                     IF KindAt(tokens, lhs.position) = "Equal" THEN "=" ELSE "!=",
                     parse_comparison_expression(lhs.env, tokens, lhs.position + 1))

parse_equality_expression(e, tokens, position) ==
    Ascend(1, 6, tokens, parse_primary_expression(e, tokens, position))

\* an `if`, not a `while`: one operator at most
comparison_once(tokens, lhs) ==
    IF lhs.position >= Len(tokens) THEN lhs
    ELSE IF KindAt(tokens, lhs.position) \notin {"Greater", "Less"} THEN lhs
    ELSE TypeChecked(lhs,
                     IF KindAt(tokens, lhs.position) = "Greater" THEN ">" ELSE "<",
                     parse_bitwise_shift_expression(lhs.env, tokens, lhs.position + 1))

parse_comparison_expression(e, tokens, position) ==
    Ascend(1, 5, tokens, parse_primary_expression(e, tokens, position))

\* rejects only an Integer rhs whose type differs from the type of lhs
\* the `while` of parse_bitwise_shift_expression, entered with lhs parsed
RECURSIVE bitwise_shift_loop(_, _)
bitwise_shift_loop(tokens, lhs) ==
    IF ~(/\ lhs.position < Len(tokens)
         /\ KindAt(tokens, lhs.position) \in {"BitwiseLeftShift", "BitwiseRightShift"})
    THEN lhs
    ELSE LET operator == IF KindAt(tokens, lhs.position) = "BitwiseRightShift"
                         THEN "RightShift" ELSE "LeftShift"
             Rhs(r) ==
                 IF r.status # "ok" THEN r
                 ELSE IF /\ expr_type(r.expr, r.env) = "Integer"
                         /\ ~DataTypeEq(expr_type(r.expr, r.env),
                                        expr_type(lhs.expr, r.env))
                 THEN Diagnostic(r.position, r.env)
                 ELSE bitwise_shift_loop(tokens, Parsed(BitwiseExpression(lhs.expr, operator, r.expr),
                                  r.position, r.env))
         IN  Rhs(parse_term_expression(lhs.env, tokens, lhs.position + 1))

parse_bitwise_shift_expression(e, tokens, position) ==
    Ascend(1, 4, tokens, parse_primary_expression(e, tokens, position))

\* the `while` of parse_term_expression, entered with lhs parsed
RECURSIVE term_loop(_, _)
term_loop(tokens, lhs) ==
    IF ~(lhs.position < Len(tokens) /\ KindAt(tokens, lhs.position) \in {"Plus", "Minus"})
    THEN lhs
    ELSE LET operator == IF KindAt(tokens, lhs.position) = "Plus" THEN "+" ELSE "-"
             Rhs(r) ==
                 IF r.status # "ok" THEN r
                 ELSE IF /\ expr_type(lhs.expr, r.env) \in {"Integer", "Float"}
                         /\ expr_type(r.expr, r.env) \in {"Integer", "Float"}
                 THEN term_loop(tokens, Parsed(ArithmeticExpression(lhs.expr, operator, r.expr),
                                  r.position, r.env))
                 ELSE Diagnostic(r.position, r.env)
         IN  Rhs(parse_factor_expression(lhs.env, tokens, lhs.position + 1))

parse_term_expression(e, tokens, position) ==
    Ascend(1, 3, tokens, parse_primary_expression(e, tokens, position))

\* the `while` of parse_factor_expression, entered with lhs parsed
RECURSIVE factor_loop(_, _)
factor_loop(tokens, lhs) ==
    IF ~(/\ lhs.position < Len(tokens)
         /\ KindAt(tokens, lhs.position) \in {"Star", "Slash", "Percentage"})
    THEN lhs
    ELSE LET operator == IF KindAt(tokens, lhs.position) = "Star" THEN "*"
                         ELSE IF KindAt(tokens, lhs.position) = "Slash" THEN "/"
                         ELSE "%"
             Rhs(r) ==
                 IF r.status # "ok" THEN r
                 ELSE IF /\ expr_type(lhs.expr, r.env) \in {"Integer", "Float"}
                         /\ expr_type(r.expr, r.env) \in {"Integer", "Float"}
                 THEN factor_loop(tokens, Parsed(ArithmeticExpression(lhs.expr, operator, r.expr),
                                  r.position, r.env))
                 ELSE Diagnostic(r.position, r.env)
         IN  Rhs(parse_call_expression(lhs.env, tokens, lhs.position + 1))

parse_factor_expression(e, tokens, position) ==
    Ascend(1, 2, tokens, parse_primary_expression(e, tokens, position))

\* parse_function_call_expression on tokens, after its primary expression p
call_arguments(tokens, p) ==
    LET name == p.expr.name
        Invoke(a) ==
            LET Checked(c) ==
                    IF ~c.ok THEN Diagnostic(a.position, a.env)
                    ELSE Parsed(CallExpression(name, c.arguments), a.position,
                                define(a.env, name, PROTOTYPES[name].result))
            IN  IF a.status # "ok" THEN [a EXCEPT !.expr = NoExpr]
                ELSE Checked(check_function_call_arguments(a.env, a.expr,
                                                           PROTOTYPES[name].parameters))
    IN  IF ~consume_kind(tokens, p.position, "LeftParen") THEN p
        ELSE IF p.expr.k # "Symbol" THEN Diagnostic(p.position, p.env)
        ELSE IF name \in DOMAIN PROTOTYPES
        THEN Invoke(parse_arguments_expressions(p.env, tokens, p.position))
        ELSE Diagnostic(p.position, p.env)

parse_call_expression(e, tokens, position) ==
    Ascend(1, 1, tokens, parse_primary_expression(e, tokens, position))

arguments_close(tokens, arguments, position, e) ==
    IF ~consume_kind(tokens, position, "RightParen") THEN Diagnostic(position, e)
    ELSE Parsed(arguments, position + 1, e)

\* the `while` of parse_arguments_expressions
RECURSIVE arguments_loop(_, _, _, _)
arguments_loop(tokens, arguments, position, e) ==
    IF position >= Len(tokens) THEN Abort(position, e)
    ELSE IF KindAt(tokens, position) = "RightParen"
    THEN arguments_close(tokens, arguments, position, e)
    ELSE LET Argument(a) ==
                 IF a.status # "ok" THEN a
                 ELSE IF a.position >= Len(tokens) THEN Abort(a.position, a.env)
                 ELSE IF KindAt(tokens, a.position) = "Comma"
                 THEN arguments_loop(tokens, Append(arguments, a.expr), a.position + 1, a.env)
                 ELSE arguments_close(tokens, Append(arguments, a.expr), a.position, a.env)
         IN  Argument(parse_tokens_expression(e, tokens, position))

\* returns the result record with the arguments as a sequence in expr; the
\* `while` reads tokens[*position] with no bounds check, twice
parse_arguments_expressions(e, tokens, position) ==
    IF ~consume_kind(tokens, position, "LeftParen") THEN Parsed(<<>>, position, e)
    ELSE arguments_loop(tokens, <<>>, position + 1, e)

parse_primary_expression(e, tokens, position) ==
    IF position >= Len(tokens) THEN Diagnostic(position, e)
    ELSE LET token == tokens[position + 1]
         IN  CASE token.kind = "String" ->
                     Parsed(StringExpression(token.literal, "Text"), position + 1, e)
               [] token.kind = "Symbol" ->
                     Parsed(SymbolExpression(token.literal), position + 1, e)
               [] token.kind = "GlobalVariable" ->
                     Parsed(GlobalVariableExpression(token.literal), position + 1, e)
               [] token.kind = "Integer" ->
                     Parsed(NumberExpression(IntV(1)), position + 1, e)
               [] token.kind = "True" -> Parsed(BooleanExpression(TRUE), position + 1, e)
               [] token.kind = "False" -> Parsed(BooleanExpression(FALSE), position + 1, e)
               [] token.kind = "LeftParen" -> parse_group_expression(e, tokens, position)
               [] token.kind = "Case" -> parse_case_expression(e, tokens, position)
               [] OTHER -> Diagnostic(position, e)

\* tokens[*position] after the inner expression is read with no bounds check
parse_group_expression(e, tokens, position) ==
    LET Inner(r) ==
            IF r.status # "ok" THEN r
            ELSE IF r.position >= Len(tokens) THEN Abort(r.position, r.env)
            ELSE IF KindAt(tokens, r.position) # "RightParen"
            THEN Diagnostic(r.position, r.env)
            ELSE Parsed(r.expr, r.position + 1, r.env)
    IN  Inner(parse_tokens_expression(e, tokens, position + 1))

\* parse_case_expression after its `while`; values[0] is read with no check that
\* a WHEN branch was parsed
case_branches_end(tokens, c) ==
    IF c.conditions = <<>> /\ ~c.has_else_branch THEN Diagnostic(c.position, c.env)
    ELSE IF ~consume_kind(tokens, c.position, "End") THEN Diagnostic(c.position, c.env)
    ELSE IF ~c.has_else_branch THEN Diagnostic(c.position + 1, c.env)
    ELSE IF c.values = <<>> THEN Abort(c.position + 1, c.env)
    ELSE IF \E i \in 2..Len(c.values) :
                ~DataTypeEq(expr_type(c.values[1], c.env), expr_type(c.values[i], c.env))
    THEN Diagnostic(c.position + 1, c.env)
    ELSE Parsed(CaseExpression(c.conditions, c.values, c.default_value,
                               expr_type(c.values[1], c.env)),
                c.position + 1, c.env)

\* the `while` of parse_case_expression
RECURSIVE case_loop(_, _)
case_loop(tokens, c) ==
    IF ~(c.position < Len(tokens) /\ KindAt(tokens, c.position) # "End")
    THEN case_branches_end(tokens, c)
    ELSE IF KindAt(tokens, c.position) = "Else"
    THEN (IF c.has_else_branch THEN Diagnostic(c.position, c.env)
          ELSE LET Default(d) ==
                       IF d.status # "ok" THEN d
                       ELSE case_loop(tokens, [c EXCEPT !.default_value = d.expr,
                                                        !.has_else_branch = TRUE,
                                                        !.position = d.position,
                                                        !.env = d.env])
               IN  Default(parse_tokens_expression(c.env, tokens, c.position + 1)))
    ELSE IF ~consume_kind(tokens, c.position, "When") THEN Diagnostic(c.position, c.env)
    ELSE LET Value(condition, v) ==
                 IF v.status # "ok" THEN v
                 ELSE case_loop(tokens, [c EXCEPT !.conditions = Append(@, condition.expr),
                                                  !.values = Append(@, v.expr),
                                                  !.position = v.position, !.env = v.env])
             Condition(condition) ==
                 IF condition.status # "ok" THEN condition
                 ELSE IF ~DataTypeEq(expr_type(condition.expr, condition.env), "Boolean")
                 THEN Diagnostic(condition.position, condition.env)
                 ELSE IF ~consume_kind(tokens, condition.position, "Then")
                 THEN Diagnostic(condition.position, condition.env)
                 ELSE Value(condition,
                            parse_tokens_expression(condition.env, tokens,
                                                    condition.position + 1))
         IN  Condition(parse_tokens_expression(c.env, tokens, c.position + 1))

parse_case_expression(e, tokens, position) ==
    case_loop(tokens, [conditions |-> <<>>, values |-> <<>>, default_value |-> NoExpr,
                       has_else_branch |-> FALSE, position |-> position + 1, env |-> e])

\* check_all_values_are_same_type: the type of the first value when every other
\* value has it, Any for no value, "None" otherwise
check_all_values_are_same_type(e, arguments) ==
    IF arguments = <<>> THEN "Any"
    ELSE IF \E i \in 2..Len(arguments) :
                ~DataTypeEq(expr_type(arguments[1], e), expr_type(arguments[i], e))
    THEN "None"
    ELSE expr_type(arguments[1], e)

\* the expression parse_in_expression builds from its argument and the parsed
\* list of values v
in_values(lhs, has_not_keyword, v, values_type) ==
    IF values_type = "None" THEN Diagnostic(v.position, v.env)
    ELSE IF values_type # "Any" /\ ~DataTypeEq(expr_type(lhs.expr, v.env), values_type)
    THEN Diagnostic(v.position, v.env)
    ELSE Parsed(InExpression(lhs.expr, v.expr, values_type, has_not_keyword),
                v.position, v.env)

\* parse_in_expression after its operand lhs; the returned type is the one the
\* same-type check of the values computed
in_rest(tokens, lhs) ==
    LET has_not_keyword == lhs.position < Len(tokens) /\ KindAt(tokens, lhs.position) = "Not"
        position == IF has_not_keyword THEN lhs.position + 1 ELSE lhs.position
        Values(v) ==
            IF v.status # "ok" THEN [v EXCEPT !.expr = NoExpr]
            ELSE IF v.expr = <<>>
            THEN Parsed(BooleanExpression(has_not_keyword), v.position, v.env)
            ELSE in_values(lhs, has_not_keyword, v,
                           check_all_values_are_same_type(v.env, v.expr))
    IN  IF position < Len(tokens) /\ KindAt(tokens, position) = "In"
        THEN (IF ~consume_kind(tokens, position + 1, "LeftParen")
              THEN Diagnostic(position + 1, lhs.env)
              ELSE Values(parse_arguments_expressions(lhs.env, tokens, position + 1)))
        ELSE IF has_not_keyword THEN Diagnostic(position, lhs.env)
        ELSE lhs

\* the part of each level that follows the parse of its operand, from the
\* function-call level (1) up to OR (11) and IN (12)
LevelRest(level, tokens, l) ==
    CASE level = 1 -> call_arguments(tokens, l)
      [] level = 2 -> factor_loop(tokens, l)
      [] level = 3 -> term_loop(tokens, l)
      [] level = 4 -> bitwise_shift_loop(tokens, l)
      [] level = 5 -> comparison_once(tokens, l)
      [] level = 6 -> equality_once(tokens, l)
      [] level = 7 -> bitwise_and_once(tokens, l)
      [] level = 8 -> logical_xor_loop(tokens, l)
      [] level = 9 -> bitwise_or_once(tokens, l)
      [] level = 10 -> logical_and_loop(tokens, l)
      [] level = 11 -> logical_or_loop(tokens, l)
      [] level = 12 -> in_rest(tokens, l)

\* parse_<top level>: each level first calls the level below it, down to
\* parse_primary_expression, and returns its Err at once; on Ok it goes on
\* with its own operators. r is the result of the level below `level`.
Ascend(level, top, tokens, r) ==
    IF r.status # "ok" \/ level > top THEN r
    ELSE Ascend(level + 1, top, tokens, LevelRest(level, tokens, r))

\* parse_set_query on tokens, entered with *position on the SET keyword
parse_tokens_set_query(e, tokens, position) ==
    LET name == tokens[position + 2].literal
        Value(v) ==
            IF v.status # "ok" THEN v
            ELSE Parsed([name |-> name, value |-> v.expr], v.position,
                        define_global(v.env, name, expr_type(v.expr, v.env)))
    IN  IF ~consume_kind(tokens, position + 1, "GlobalVariable")
        THEN Diagnostic(position + 1, e)
        ELSE IF ~(/\ position + 2 < Len(tokens)
                  /\ KindAt(tokens, position + 2) \in {"Equal", "ColonEqual"})
        THEN Diagnostic(position + 2, e)
        ELSE Value(parse_tokens_expression(e, tokens, position + 3))

\* the check of a parsed WHERE or HAVING condition c: it must be of type Boolean
BooleanCondition(position, c) ==
    IF c.status # "ok" THEN c
    ELSE IF ~DataTypeEq(expr_type(c.expr, c.env), "Boolean")
    THEN Diagnostic(position, c.env)
    ELSE c

\* parse_where_statement on tokens, entered with *position on the keyword (no
\* aggregation is ever registered)
parse_tokens_where_statement(e, tokens, position) ==
    IF position + 1 >= Len(tokens) THEN Diagnostic(position + 1, e)
    ELSE BooleanCondition(position + 1, parse_tokens_expression(e, tokens, position + 1))

\* parse_having_statement on tokens, entered with *position on the keyword
parse_tokens_having_statement(e, tokens, position) ==
    IF position + 1 >= Len(tokens) THEN Diagnostic(position + 1, e)
    ELSE BooleanCondition(position + 1, parse_tokens_expression(e, tokens, position + 1))

\* parse_gql on tokens: tokens[0] is read with no check that there is a token
parse_tokens_gql(tokens, e) ==
    LET Ended(q) ==
            LET position == IF consume_kind(tokens, q.position, "Semicolon")
                            THEN q.position + 1 ELSE q.position
            IN  IF q.status = "ok" /\ position < Len(tokens)
                THEN Diagnostic(position, q.env)
                ELSE [q EXCEPT !.position = position]
    IN  IF tokens = <<>> THEN Abort(0, e)
        ELSE IF KindAt(tokens, 0) = "Set" THEN Ended(parse_tokens_set_query(e, tokens, 0))
        ELSE Ended(Diagnostic(0, e))

-----------------------------------------------------------------------------
(* parse_gql applied once to a token sequence *)

SetPrefix == <<Token("Set", "set"), Token("GlobalVariable", "@x"), Token("Equal", "=")>>

\* the operand tokens of the operator chains, and the static type each parses to
OperandTokens == {Token("Integer", "1"), Token("True", "true"), Token("String", "a")}

OperandType(token) ==
    IF token.kind = "Integer" THEN "Integer"
    ELSE IF token.kind = "True" THEN "Boolean" ELSE "Text"

\* one operator token for each binary level of the grammar, both shifts
OperatorTokens ==
    {Token(kind, kind) :
        kind \in {"LogicalOr", "LogicalAnd", "BitwiseOr", "LogicalXor", "BitwiseAnd", "Equal",
                  "Greater", "BitwiseLeftShift", "BitwiseRightShift", "Plus", "Star"}}

TokenInit ==
    LET structural == OperandTokens \cup
            {Token("Symbol", "lower"), Token("LeftParen", "("), Token("RightParen", ")"),
             Token("Comma", ","), Token("Case", "case"), Token("When", "when"),
             Token("Then", "then"), Token("Else", "else"), Token("End", "end"),
             Token("Semicolon", ";")}
        statement == {Token("Set", "set"), Token("GlobalVariable", "@x"), Token("Equal", "="),
                      Token("Integer", "1"), Token("Semicolon", ";")}
        chains == {<<a, o, b>> : a \in OperandTokens, o \in OperatorTokens, b \in OperandTokens}
                  \cup {<<a, o1, b, o2, c>> :
                            a \in OperandTokens, o1 \in OperatorTokens, b \in OperandTokens,
                            o2 \in OperatorTokens, c \in OperandTokens}
        \* `WHERE a [NOT] IN (v1)`, `... (v1, v2)` and `... ()`, HAVING likewise
        lists == {<<>>} \cup {<<v>> : v \in OperandTokens}
                 \cup {<<v1, Token("Comma", ","), v2>> : v1 \in OperandTokens, v2 \in OperandTokens}
        conditions ==
            {<<k, a>> \o n \o <<Token("In", "in"), Token("LeftParen", "(")>> \o l
                       \o <<Token("RightParen", ")")>> :
                k \in {Token("Where", "where"), Token("Having", "having")},
                a \in OperandTokens, n \in {<<>>, <<Token("Not", "not")>>}, l \in lists}
    IN  /\ pg \in {[tokens |-> t, step |-> "start", result |-> Diagnostic(0, EmptyEnv)] :
                      t \in SeqsUpTo(statement, 2)
                            \cup {SetPrefix \o t2 : t2 \in SeqsUpTo(structural, MaxTokens)}
                            \cup {SetPrefix \o t3 : t3 \in chains}
                            \cup conditions}
        /\ src = NoSource
        /\ repos = <<>>
        /\ env = EmptyEnv
        /\ query = Rejected(EmptyEnv)
        /\ st = NoState
        /\ pc = "tokens"
        /\ op = "none"
        /\ sess = NoSession

\* parse_gql(tokens, &mut env) on a fresh Environment
TokenParse ==
    /\ pg.step = "start"
    /\ pg' = [pg EXCEPT !.step = "parsed", !.result = parse_tokens_gql(pg.tokens, env)]
    /\ env' = pg'.result.env
    /\ UNCHANGED <<src, repos, query, st, pc, op, sess>>

\* the statement loop of parse_select_query on a WHERE or HAVING keyword
TokenCondition ==
    /\ pg.step = "start"
    /\ pg.tokens # <<>>
    /\ KindAt(pg.tokens, 0) \in {"Where", "Having"}
    /\ pg' = [pg EXCEPT !.step = "condition",
                        !.result = IF KindAt(pg.tokens, 0) = "Where"
                                   THEN parse_tokens_where_statement(env, pg.tokens, 0)
                                   ELSE parse_tokens_having_statement(env, pg.tokens, 0)]
    /\ env' = pg'.result.env
    /\ UNCHANGED <<src, repos, query, st, pc, op, sess>>

TokenNext == TokenParse \/ TokenCondition

TokenSpec == TokenInit /\ [][TokenNext]_vars

\* C11: for every token sequence, the empty one and those that end in the
\* middle of an expression included, parse_gql returns a Query or a Diagnostic
\* and never aborts with a panic or an out-of-bounds access
C11_ParseNeverAborts ==
    pg.step = "parsed" => pg.result.status \in {"ok", "err"}

\* `SET @x = a op b op c` with one operator twice
IsChain ==
    /\ Len(pg.tokens) = 8
    /\ pg.tokens[5] \in OperatorTokens
    /\ pg.tokens[7] = pg.tokens[5]
    /\ \A i \in {4, 6, 8} : pg.tokens[i] \in OperandTokens

\* the operands are of the types the level takes: Boolean for the logical
\* levels, Integer for shift, additive and multiplicative, Integer (or, as the
\* parser has it, Boolean) for bitwise | and &, and for equality and comparison
\* two operands of one type followed by a Boolean
WellTypedChain ==
    LET level == pg.tokens[5].kind
        types == <<OperandType(pg.tokens[4]), OperandType(pg.tokens[6]),
                   OperandType(pg.tokens[8])>>
        All(ty) == \A i \in 1..3 : types[i] = ty
    IN  CASE level \in {"LogicalOr", "LogicalAnd", "LogicalXor"} -> All("Boolean")
          [] level \in {"BitwiseOr", "BitwiseAnd"} -> All("Integer") \/ All("Boolean")
          [] level \in {"Equal", "Greater"} -> types[1] = types[2] /\ types[3] = "Boolean"
          [] OTHER -> All("Integer")

BinaryKinds == {"Logical", "Bitwise", "Comparison", "Arithmetic"}

\* the expression a lone operand token parses to
OperandExpr(token) == parse_primary_expression(EmptyEnv, <<token>>, 0).expr

\* C16: at every binary operator level a chain `a op b op c` of well-typed
\* operands is accepted and parsed as the left-nested tree (a op b) op c, with
\* all tokens of the chain consumed
C16_ChainsLeftNested ==
    (pg.step = "parsed" /\ IsChain /\ WellTypedChain) =>
        /\ pg.result.status = "ok"
        /\ pg.result.position = Len(pg.tokens)
        /\ pg.result.expr.value.k \in BinaryKinds
        /\ pg.result.expr.value.left.k \in BinaryKinds
        /\ pg.result.expr.value.left.operator = pg.result.expr.value.operator
        /\ pg.result.expr.value.left.left = OperandExpr(pg.tokens[4])
        /\ pg.result.expr.value.left.right = OperandExpr(pg.tokens[6])
        /\ pg.result.expr.value.right = OperandExpr(pg.tokens[8])

\* `SET @x = a << b` or `SET @x = a >> b`
IsShift ==
    /\ Len(pg.tokens) = 6
    /\ pg.tokens[5].kind \in {"BitwiseLeftShift", "BitwiseRightShift"}
    /\ \A i \in {4, 6} : pg.tokens[i] \in OperandTokens

\* C17: the parser rejects every shift expression in which either operand has
\* a static type other than Integer, and accepts a shift only when both
\* operands are Integer
C17_ShiftOperandsInteger ==
    (pg.step = "parsed" /\ IsShift) =>
        (pg.result.status = "ok"
            <=> (OperandType(pg.tokens[4]) = "Integer" /\ OperandType(pg.tokens[6]) = "Integer"))

\* `WHERE a [NOT] IN (v1, ..., vn)` or the same after HAVING, n >= 1
IsInCondition ==
    /\ Len(pg.tokens) >= 6
    /\ pg.tokens[1].kind \in {"Where", "Having"}
    /\ pg.tokens[2] \in OperandTokens
    /\ \E i \in {3, 4} : pg.tokens[i].kind = "In" /\ pg.tokens[i + 2] \in OperandTokens

\* the values of the list, each of the type of the argument
InValuesMatchArgument ==
    \A i \in 4..Len(pg.tokens) :
        pg.tokens[i] \in OperandTokens => OperandType(pg.tokens[i]) = OperandType(pg.tokens[2])

\* C26: `x [NOT] IN (v1, ..., vn)` with n >= 1 whose argument type matches the
\* common type of the values has static type Boolean, and is accepted as a
\* WHERE or HAVING condition whatever the type of the values is
C26_InConditionAccepted ==
    (pg.step = "condition" /\ IsInCondition /\ InValuesMatchArgument) =>
        /\ pg.result.status = "ok"
        /\ pg.result.expr.k = "In"
        /\ expr_type(pg.result.expr, pg.result.env) = "Boolean"

\* the query is run on one row source, so that each title is pushed once
OneSource == Len(repos) = 1 \/ src.table = ""

\* C27: for every SELECT the parser accepts, the display titles of the result
\* (alias or field name, followed by the hidden selections) are pairwise
\* distinct, also when an alias equals the name of a field selected later in
\* the list or a generated column_<n> name
C27_TitlesDistinct ==
    (pc # "parse" /\ query.ok /\ OneSource) =>
        \A i, j \in 1..Len(st.obj.titles) : i # j => st.obj.titles[i] # st.obj.titles[j]

=============================================================================
